---- MODULE Spec2Model ----
(***************************************************************************)
(* Verification model of iPDF-Fill: the knowledge ingestion / chunking     *)
(* engine (services/knowledge_processor.py), the vector store wrapper      *)
(* (services/vector_store.py) and the retrieval-augmented answering        *)
(* pipeline (services/rag_agent.py).                                       *)
(*                                                                         *)
(* Python strings are modelled as sequences of one-character strings, so   *)
(* that slicing, strip(), split() and the regular expressions of the code  *)
(* are computed character by character.  The two non-ASCII glyphs of the   *)
(* code, the arrow and the check mark, are the single characters "ARROW"   *)
(* and "CHECK".                                                            *)
(***************************************************************************)
EXTENDS Integers, Sequences, FiniteSets, TLC

VARIABLES
    \* ---- answering pipeline (rag_agent.py, answer_all_questions) ----
    questions_json,   \* the batch envelope: a dict with "questions", counters, flag
    aq_pc,            \* position inside answer_all_questions / answer_question
    aq_i,             \* loop index i of answer_all_questions (0-based)
    context,          \* local `context` of answer_question for the question in hand
    use_reranker,     \* PROCESSING_CONFIG.use_reranker
    calls,            \* what happened to the external calls made for the question in hand
    sleeps,           \* number of time.sleep(1) calls made so far
    gen_calls,        \* number of mistral chat.complete invocations so far
    \* ---- vector store set-up (vector_store.py, app.py process_pipeline) ----
    vs_pc,            \* position inside process_pipeline / setup_vector_store
    collection,       \* the Qdrant collection: [exists, points] (points: id -> ingestion tag)
    vs_chunks,        \* number of chunks handed to setup_vector_store
    force_recreate,   \* the force_recreate argument
    upserts,          \* sequence of upsert calls issued: <<first id, last id, "ok"|"fail">>
    vs_result,        \* what setup_vector_store gave its caller
    pipeline,         \* what process_pipeline did after step 4
    \* ---- embedding generation (knowledge_processor.py, generate_embeddings) ----
    ge_pc,            \* position inside generate_embeddings
    ge_chunks,        \* the chunk list (each chunk: text id, embedding, embedding_model)
    ge_i,             \* loop variable i of the batch loop
    all_embeddings,   \* local list all_embeddings
    embed_calls,      \* sequence of embed calls issued: <<first, last, "ok"|"fail">>
    \* ---- chunking (knowledge_processor.py, chunk_text_advanced) ----
    ct_pc,            \* position inside chunk_text_advanced
    ct_text,          \* the document text handed to chunk_text_advanced
    ct_sections,      \* sections of document_structure not yet visited
    ct_candidates,    \* entries of section_chunks not yet visited
    ct_chunks,        \* local list `chunks`, the value returned
    chunk_id,         \* local counter chunk_id
    \* ---- answer post-processing (rag_agent.py, _post_process_answer) ----
    pp_pc,            \* "call" before _post_process_answer runs, "done" after
    pp_raw,           \* the argument answer
    pp_type,          \* the argument question_type
    pp_answer,        \* the value returned
    \* ---- a helper of the chunker called on its own (knowledge_processor.py) ----
    hp_pc,            \* "call" before the helper runs, "done" after
    hp_arg,           \* the argument of the helper
    hp_result         \* the value returned

ragVars   == <<questions_json, aq_pc, aq_i, context, use_reranker, calls, sleeps, gen_calls>>
storeVars == <<vs_pc, collection, vs_chunks, force_recreate, upserts, vs_result, pipeline>>
embedVars == <<ge_pc, ge_chunks, ge_i, all_embeddings, embed_calls>>
chunkVars == <<ct_pc, ct_text, ct_sections, ct_candidates, ct_chunks, chunk_id>>
postVars  == <<pp_pc, pp_raw, pp_type, pp_answer>>
helperVars == <<hp_pc, hp_arg, hp_result>>
vars      == <<ragVars, storeVars, embedVars, chunkVars, postVars, helperVars>>

-----------------------------------------------------------------------------
(* Python values *)

None == <<"None">>

\* outcome of a call that may raise: Raised, or Returned(v)
Raised      == [ok |-> FALSE]
Returned(v) == [ok |-> TRUE, value |-> v]

Min(a, b) == IF a < b THEN a ELSE b

-----------------------------------------------------------------------------
(* Python string primitives over sequences of characters *)

Whitespace == {" ", "\n", "\t"}

UpperCase == {"A", "B", "C", "D", "E", "F", "G", "H", "I", "J", "K", "L", "M",
              "N", "O", "P", "Q", "R", "S", "T", "U", "V", "W", "X", "Y", "Z"}

Digits == {"0", "1", "2", "3", "4", "5", "6", "7", "8", "9"}

\* s[a:b] with 0-based a, b already clipped to 0..len(s)
Slice(s, a, b) == IF b <= a THEN <<>> ELSE SubSeq(s, a + 1, b)

\* s.startswith(p)
StartsWith(s, p) == Len(s) >= Len(p) /\ SubSeq(s, 1, Len(p)) = p

\* the least element of a non-empty set of integers
Least(S) == CHOOSE x \in S : \A y \in S : x <= y

\* the 0-based indices >= from at which p occurs in s
Occurrences(s, p, from) ==
    {i \in from..(Len(s) - Len(p)) : SubSeq(s, i + 1, i + Len(p)) = p}

\* first 0-based index >= from at which p occurs in s, or -1 (s.find(p, from))
FindFrom(s, p, from) ==
    LET at == Occurrences(s, p, from)
    IN  IF at = {} THEN -1 ELSE Least(at)

\* p in s
Contains(s, p) == FindFrom(s, p, 0) # -1

RECURSIVE LStrip(_)
LStrip(s) == IF s # <<>> /\ Head(s) \in Whitespace THEN LStrip(Tail(s)) ELSE s

RECURSIVE RStrip(_)
RStrip(s) ==
    IF s # <<>> /\ s[Len(s)] \in Whitespace THEN RStrip(SubSeq(s, 1, Len(s) - 1)) ELSE s

\* s.strip()
Strip(s) == RStrip(LStrip(s))

\* s.split(sep) for a one-character separator: always at least one piece
RECURSIVE SplitOn(_, _)
SplitOn(s, sep) ==
    LET i == FindFrom(s, <<sep>>, 0)
    IN  IF i = -1 THEN <<s>>
        ELSE <<Slice(s, 0, i)>> \o SplitOn(Slice(s, i + 1, Len(s)), sep)

\* sep.join(parts)
RECURSIVE Join(_, _)
Join(parts, sep) ==
    IF parts = <<>> THEN <<>>
    ELSE IF Len(parts) = 1 THEN parts[1]
    ELSE parts[1] \o sep \o Join(Tail(parts), sep)

\* s.count(c) for a one-character c
Count(s, c) == Cardinality({i \in 1..Len(s) : s[i] = c})

LowerCase == {"a", "b", "c", "d", "e", "f", "g", "h", "i", "j", "k", "l", "m",
              "n", "o", "p", "q", "r", "s", "t", "u", "v", "w", "x", "y", "z"}

LowerOf == [c \in UpperCase |->
              CASE c = "A" -> "a" [] c = "B" -> "b" [] c = "C" -> "c" [] c = "D" -> "d"
                [] c = "E" -> "e" [] c = "F" -> "f" [] c = "G" -> "g" [] c = "H" -> "h"
                [] c = "I" -> "i" [] c = "J" -> "j" [] c = "K" -> "k" [] c = "L" -> "l"
                [] c = "M" -> "m" [] c = "N" -> "n" [] c = "O" -> "o" [] c = "P" -> "p"
                [] c = "Q" -> "q" [] c = "R" -> "r" [] c = "S" -> "s" [] c = "T" -> "t"
                [] c = "U" -> "u" [] c = "V" -> "v" [] c = "W" -> "w" [] c = "X" -> "x"
                [] c = "Y" -> "y" [] c = "Z" -> "z"]

\* s.lower()
Lower(s) == [i \in 1..Len(s) |-> IF s[i] \in UpperCase THEN LowerOf[s[i]] ELSE s[i]]

\* regex \w
WordChars == UpperCase \cup LowerCase \cup Digits \cup {"_"}

\* length of the longest run of characters of class C in s from 0-based index i on
RunLen(s, i, C) ==
    LET stops == {j \in i..(Len(s) - 1) : s[j + 1] \notin C}
    IN  IF stops = {} THEN Len(s) - i ELSE Least(stops) - i

\* length of the longest run of characters outside class C in s from index i on
RunLenNot(s, i, C) ==
    LET stops == {j \in i..(Len(s) - 1) : s[j + 1] \in C}
    IN  IF stops = {} THEN Len(s) - i ELSE Least(stops) - i

-----------------------------------------------------------------------------
(* config.py *)

MULTIPLE_CHOICE_SINGLE == "multiple_choice_single"
MULTIPLE_CHOICE_MULTI  == "multiple_choice_multi"
TRUE_FALSE             == "true_false"
MATCH_FOLLOWING        == "match_following"
TEXTUAL_ANSWER         == "textual_answer"
FILL_IN_BLANK          == "fill_in_blank"

embedding_dimension == 1536
chunk_size          == 1000
top_k_results       == 10
rerank_top_n        == 5

-----------------------------------------------------------------------------
(* rag_agent.py: RAGAgent._post_process_answer *)

unwanted_prefixes ==
    << <<"A", "n", "s", "w", "e", "r", ":">>,
       <<"a", "n", "s", "w", "e", "r", ":">>,
       <<"A", "N", "S", "W", "E", "R", ":">>,
       <<"T", "h", "e", " ", "a", "n", "s", "w", "e", "r", " ", "i", "s", ":">>,
       <<"T", "h", "e", " ", "c", "o", "r", "r", "e", "c", "t", " ", "a", "n", "s", "w", "e", "r", " ", "i", "s", ":">>,
       <<"B", "a", "s", "e", "d", " ", "o", "n", " ", "t", "h", "e", " ", "c", "o", "n", "t", "e", "x", "t", ":">>,
       <<"A", "c", "c", "o", "r", "d", "i", "n", "g", " ", "t", "o", " ", "t", "h", "e", " ", "c", "o", "n", "t", "e", "x", "t", ":">> >>

\* a variant of the loop that starts over after every prefix it strips
RECURSIVE StripPrefixesRestarting(_, _)
StripPrefixesRestarting(answer, k) ==
    IF k > Len(unwanted_prefixes) THEN answer
    ELSE IF StartsWith(answer, unwanted_prefixes[k])
         THEN StripPrefixesRestarting(
                  Strip(Slice(answer, Len(unwanted_prefixes[k]), Len(answer))), 1)
         ELSE StripPrefixesRestarting(answer, k + 1)

\* the loop `for prefix in unwanted_prefixes`, from the k-th prefix on
RECURSIVE StripPrefixes(_, _)
StripPrefixes(answer, k) ==
    IF k > Len(unwanted_prefixes) THEN answer
    ELSE LET prefix == unwanted_prefixes[k]
         IN  StripPrefixes(IF StartsWith(answer, prefix)
                           THEN Strip(Slice(answer, Len(prefix), Len(answer)))
                           ELSE answer,
                           k + 1)

\* a variant that leaves the whitespace as it is
KeepSpaces(s) == s

\* re.sub(r'\s+', ' ', s)
RECURSIVE CollapseSpaces(_)
CollapseSpaces(s) ==
    IF s = <<>> THEN <<>>
    ELSE IF Head(s) \in Whitespace THEN <<" ">> \o CollapseSpaces(LStrip(s))
    ELSE <<Head(s)>> \o CollapseSpaces(Tail(s))

\* length of the run of digits at the start of s
RECURSIVE DigitRun(_)
DigitRun(s) == IF s # <<>> /\ Head(s) \in Digits THEN 1 + DigitRun(Tail(s)) ELSE 0

\* length of the match of the type's leading token at the start of s, 0 if none:
\*   [A-Z]\.   (True|False)   \d+\.
TokenLen(question_type, s) ==
    IF question_type \in {MULTIPLE_CHOICE_SINGLE, MULTIPLE_CHOICE_MULTI}
    THEN IF Len(s) >= 2 /\ s[1] \in UpperCase /\ s[2] = "." THEN 2 ELSE 0
    ELSE IF question_type = TRUE_FALSE
    THEN IF StartsWith(s, <<"T", "r", "u", "e">>) THEN 4
         ELSE IF StartsWith(s, <<"F", "a", "l", "s", "e">>) THEN 5 ELSE 0
    ELSE LET d == DigitRun(s)
         IN  IF d > 0 /\ Len(s) > d /\ s[d + 1] = "." THEN d + 1 ELSE 0

\* a variant that replaces the leftmost match only (count = 1)
RECURSIVE BreakBeforeFirstToken(_, _)
BreakBeforeFirstToken(question_type, s) ==
    IF s = <<>> THEN <<>>
    ELSE IF Head(s) \in Whitespace /\ TokenLen(question_type, LStrip(s)) > 0
         THEN <<"\n">> \o LStrip(s)
         ELSE <<Head(s)>> \o BreakBeforeFirstToken(question_type, Tail(s))

\* re.sub(r'\s+(TOKEN)', r'\n\1', s): leftmost, non-overlapping matches
RECURSIVE BreakBeforeTokens(_, _)
BreakBeforeTokens(question_type, s) ==
    IF s = <<>> THEN <<>>
    ELSE LET rest == LStrip(s)
             n    == TokenLen(question_type, rest)
         IN  IF Head(s) \in Whitespace /\ n > 0
             THEN <<"\n">> \o SubSeq(rest, 1, n)
                  \o BreakBeforeTokens(question_type, Slice(rest, n, Len(rest)))
             ELSE <<Head(s)>> \o BreakBeforeTokens(question_type, Tail(s))

\* the test applied to a stripped line in the branch for answers with newlines
LineMatches(question_type, line) ==
    /\ line # <<>>
    /\ IF question_type \in {MULTIPLE_CHOICE_SINGLE, MULTIPLE_CHOICE_MULTI}
       THEN TokenLen(question_type, line) > 0
       ELSE IF question_type = TRUE_FALSE
       THEN TokenLen(question_type, line) > 0
       ELSE Contains(line, <<"ARROW">>) \/ TokenLen(question_type, line) > 0

\* a variant of the loop that keeps the matching lines as they are, untrimmed
RECURSIVE CleanedLinesUntrimmed(_, _)
CleanedLinesUntrimmed(question_type, lines) ==
    IF lines = <<>> THEN <<>>
    ELSE (IF LineMatches(question_type, Strip(Head(lines))) THEN <<Head(lines)>> ELSE <<>>)
         \o CleanedLinesUntrimmed(question_type, Tail(lines))

\* cleaned_lines of the loop `for line in lines`
RECURSIVE CleanedLines(_, _)
CleanedLines(question_type, lines) ==
    IF lines = <<>> THEN <<>>
    ELSE LET line == Strip(Head(lines))
         IN  (IF LineMatches(question_type, line) THEN <<line>> ELSE <<>>)
             \o CleanedLines(question_type, Tail(lines))

ShapeTypes == {MULTIPLE_CHOICE_SINGLE, MULTIPLE_CHOICE_MULTI, TRUE_FALSE, MATCH_FOLLOWING}

_post_process_answer(raw, question_type) ==
    LET answer == StripPrefixes(raw, 1)
    IN  IF question_type \notin ShapeTypes THEN answer
        ELSE IF Contains(answer, <<"\n">>)
        THEN LET cleaned_lines == CleanedLines(question_type, SplitOn(answer, "\n"))
             IN  IF cleaned_lines # <<>> THEN Join(cleaned_lines, <<"\n">>) ELSE answer
        ELSE Strip(BreakBeforeTokens(question_type, CollapseSpaces(answer)))

-----------------------------------------------------------------------------
(* Bounds and input pools of the answering pipeline *)

MaxQuestions == 3

\* str(e) of the exceptions the external services and the interpreter raise
ServiceError == <<"5", "0", "3">>
TypeErrorMsg == <<"'", "N", "o", "n", "e", "T", "y", "p", "e", "'", " ", "o", "b", "j", "e", "c", "t", " ", "i", "s", " ", "n", "o", "t", " ", "s", "u", "b", "s", "c", "r", "i", "p", "t", "a", "b", "l", "e">>

\* a question as questions_to_json builds it (vlm_service.py); question_text is
\* None when the extraction JSON carried "question_text": null
NewQuestion(id, text, type, options) ==
    [question_id |-> id, question_text |-> text, question_type |-> type,
     options |-> options, metadata |-> [page_number |-> 1], answer |-> None]

QuestionPool ==
    { NewQuestion("q_tf", <<"Q", "1", "?">>, TRUE_FALSE, None),
      NewQuestion("q_null", None, TEXTUAL_ANSWER, None) }

RECURSIVE SeqsUpTo(_, _)
SeqsUpTo(S, n) ==
    IF n = 0 THEN {<<>>}
    ELSE LET shorter == SeqsUpTo(S, n - 1)
         IN  shorter \cup {Append(q, x) : q \in {r \in shorter : Len(r) = n - 1}, x \in S}

\* message contents the generative model may return
RawAnswers == { <<"T", "h", "e", " ", "a", "n", "s", "w", "e", "r", " ", "i", "s", ":", " ", "T", "r", "u", "e", " ", "F", "a", "l", "s", "e", " ", "C", "H", "E", "C", "K">>,
                <<" ", "L", "a", "g", "a", "a", "n", " ">> }

\* numbers of hits the vector search may return (top_k_results at most)
HitCounts == {0, 1, 3, top_k_results}

\* the payload text of the stored chunk with id n
DigitChar == <<"0", "1", "2", "3", "4", "5", "6", "7", "8", "9">>
ChunkText(n) == <<"c", "h", "u", "n", "k">> \o <<DigitChar[n + 1]>>

\* what client.search returns for k hits: ranks 1..k hold chunks k, k-1, .., 1
SearchResults(k) == [r \in 1..k |-> [chunk_id |-> k - r, text |-> ChunkText(k - r)]]

\* rerank_response.results for n documents: 0-based indices into the documents,
\* at most top_n of them
RerankResponses(n) ==
    LET m == Min(rerank_top_n, n)
    IN  { [r \in 1..m |-> r - 1],          \* ranking unchanged
          [r \in 1..m |-> n - r],          \* ranking reversed
          [r \in 1..m |-> (r + 1) % n] }   \* rotated

-----------------------------------------------------------------------------
(* vector_store.py: VectorStore.search_similar *)

\* a bug variant of search_similar: the exception of client.search escapes
search_similar_propagates(found) ==
    IF ~found.ok THEN Raised
    ELSE Returned([r \in 1..Len(found.value) |-> found.value[r]])

\* found: the outcome of client.search (Raised, or Returned(hits)).
\* Gives the outcome of search_similar itself.
search_similar(found) ==
    IF ~found.ok THEN Returned(<<>>)
    ELSE Returned([r \in 1..Len(found.value) |-> found.value[r]])

-----------------------------------------------------------------------------
(* rag_agent.py: retrieval *)

FallbackPrefix == <<"F", "a", "l", "l", "b", "a", "c", "k", " ", "c", "o", "n", "t", "e", "x", "t", " ", "f", "o", "r", " ", "q", "u", "e", "s", "t", "i", "o", "n", ":", " ">>

\* a bug variant of the fallback: no placeholder at all
_retrieve_context_fallback_empty(question) == <<>>

_retrieve_context_fallback(question) == << FallbackPrefix \o question >>

TextsOf(chunks) == [r \in 1..Len(chunks) |-> chunks[r].text]

\* a bug variant of line 100: a single candidate is sent to the reranker too
ShouldRerankSingle(reranker_on, similar_chunks) ==
    reranker_on /\ Len(similar_chunks) >= 1

\* line 100: PROCESSING_CONFIG.use_reranker and len(similar_chunks) > 1
ShouldRerank(reranker_on, similar_chunks) ==
    reranker_on /\ Len(similar_chunks) > 1

\* line 119: similar_chunks[:PROCESSING_CONFIG.rerank_top_n]
TopChunks(similar_chunks) ==
    SubSeq(similar_chunks, 1, Min(rerank_top_n, Len(similar_chunks)))

\* embedded: outcome of cohere embed; found: outcome of client.search;
\* reranked: outcome of cohere rerank (the result indices).
\* Gives the returned context, which services were called, and the candidates.
\* Any exception inside the try block (lines 78-121) ends in the fallback.
_retrieve_context_with_reranking(question, reranker_on, embedded, found, reranked) ==
    IF ~embedded.ok
    THEN [context |-> _retrieve_context_fallback(question),
          searched |-> FALSE, rerank_called |-> FALSE, similar |-> <<>>]
    ELSE LET searched == search_similar(found)
         IN  IF ~searched.ok
             THEN [context |-> _retrieve_context_fallback(question),
                   searched |-> TRUE, rerank_called |-> FALSE, similar |-> <<>>]
             ELSE LET similar_chunks == searched.value
                  IN  IF similar_chunks = <<>>
                      THEN [context |-> <<>>, searched |-> TRUE, rerank_called |-> FALSE,
                            similar |-> similar_chunks]
                      ELSE IF ShouldRerank(reranker_on, similar_chunks)
                      THEN LET context_texts == TextsOf(similar_chunks)
                           IN  IF ~reranked.ok
                               THEN [context |-> _retrieve_context_fallback(question),
                                     searched |-> TRUE, rerank_called |-> TRUE,
                                     similar |-> similar_chunks]
                               ELSE [context |-> [r \in 1..Len(reranked.value) |->
                                                     context_texts[reranked.value[r] + 1]],
                                     searched |-> TRUE, rerank_called |-> TRUE,
                                     similar |-> similar_chunks]
                      ELSE [context |-> TextsOf(TopChunks(similar_chunks)),
                            searched |-> TRUE, rerank_called |-> FALSE,
                            similar |-> similar_chunks]

-----------------------------------------------------------------------------
(* rag_agent.py: generation *)

GenErrorPrefix == <<"E", "r", "r", "o", "r", " ", "g", "e", "n", "e", "r", "a", "t", "i", "n", "g", " ", "a", "n", "s", "w", "e", "r", ":", " ">>
AnswerErrorText == <<"E", "r", "r", "o", "r", ":", " ", "C", "o", "u", "l", "d", " ", "n", "o", "t", " ", "g", "e", "n", "e", "r", "a", "t", "e", " ", "a", "n", "s", "w", "e", "r">>

\* generated: outcome of chat.complete (the message content)
_generate_answer(question_type, generated) ==
    IF ~generated.ok THEN GenErrorPrefix \o ServiceError
    ELSE _post_process_answer(Strip(generated.value), question_type)

\* d[k] = v on a Python dict
SetKey(d, k, v) == (k :> v) @@ d

-----------------------------------------------------------------------------
(* rag_agent.py: answer_all_questions and RAGAgent.answer_question, step by step *)

NoCalls == [embed |-> "none", search |-> "none", rerank |-> "none", gen |-> "none",
            similar |-> <<>>, raised |-> FALSE]

InitRag ==
    /\ \E qs \in SeqsUpTo(QuestionPool, MaxQuestions) :
           questions_json = [total_questions |-> Len(qs), extraction_timestamp |-> 0,
                             questions |-> qs]
    /\ use_reranker \in BOOLEAN
    /\ aq_pc = "loop"
    /\ aq_i = 0
    /\ context = <<>>
    /\ calls = NoCalls
    /\ sleeps = 0
    /\ gen_calls = 0

IdleRag ==
    /\ questions_json = [total_questions |-> 0, extraction_timestamp |-> 0, questions |-> <<>>]
    /\ use_reranker = TRUE
    /\ aq_pc = "idle"
    /\ aq_i = 0
    /\ context = <<>>
    /\ calls = NoCalls
    /\ sleeps = 0
    /\ gen_calls = 0

total_questions == Len(questions_json["questions"])
question_data   == questions_json["questions"][aq_i + 1]

\* answer_question, lines 44-51: read the question and retrieve its context
Retrieve ==
    /\ aq_pc = "loop"
    /\ aq_i < total_questions
    /\ question_data["question_text"] # None
    /\ \E embedded \in {Raised, Returned("embedding")},
          k \in HitCounts,
          searchRaises \in BOOLEAN :
         LET found == IF searchRaises THEN Raised ELSE Returned(SearchResults(k))
         IN  \E reranked \in {Raised} \cup {Returned(x) : x \in RerankResponses(IF k = 0 THEN 1 ELSE k)} :
               LET r == _retrieve_context_with_reranking(question_data["question_text"],
                                                         use_reranker, embedded, found, reranked)
               IN  /\ context' = r.context
                   /\ calls' = [embed   |-> IF embedded.ok THEN "ok" ELSE "raise",
                                search  |-> IF ~r.searched THEN "none"
                                            ELSE IF found.ok THEN "ok" ELSE "raise",
                                rerank  |-> IF ~r.rerank_called THEN "none"
                                            ELSE IF reranked.ok THEN "ok" ELSE "raise",
                                gen     |-> "none",
                                similar |-> r.similar,
                                raised  |-> FALSE]
    /\ aq_pc' = "generate"
    /\ UNCHANGED <<questions_json, aq_i, use_reranker, sleeps, gen_calls>>
    /\ UNCHANGED <<storeVars, embedVars, chunkVars, postVars, helperVars>>

\* a bug variant of answer_question without its handler: the exception escapes
\* answer_question and ends answer_all_questions
AnswerQuestionPropagates ==
    /\ aq_pc = "loop"
    /\ aq_i < total_questions
    /\ question_data["question_text"] = None
    /\ context' = <<>>
    /\ calls' = [NoCalls EXCEPT !.raised = TRUE]
    /\ aq_pc' = "raised"
    /\ UNCHANGED <<questions_json, aq_i, use_reranker, sleeps, gen_calls>>
    /\ UNCHANGED <<storeVars, embedVars, chunkVars, postVars, helperVars>>

\* answer_question, lines 48 and 62-66: question_text[:100] raises on a None text,
\* and the handler writes the fixed error answer
AnswerQuestionRaises ==
    /\ aq_pc = "loop"
    /\ aq_i < total_questions
    /\ question_data["question_text"] = None
    /\ questions_json' =
         [questions_json EXCEPT !["questions"][aq_i + 1] =
             SetKey(SetKey(@, "answer", AnswerErrorText), "error", TypeErrorMsg)]
    /\ context' = <<>>
    /\ calls' = [NoCalls EXCEPT !.raised = TRUE]
    /\ aq_pc' = "pace"
    /\ UNCHANGED <<aq_i, use_reranker, sleeps, gen_calls>>
    /\ UNCHANGED <<storeVars, embedVars, chunkVars, postVars, helperVars>>

\* a bug variant of answer_question: the answer is stored without context_used
GenerateOmitsContextUsed ==
    /\ aq_pc = "generate"
    /\ \E generated \in {Raised} \cup {Returned(a) : a \in RawAnswers} :
         LET answer == _generate_answer(question_data["question_type"], generated)
         IN  /\ questions_json' =
                  [questions_json EXCEPT !["questions"][aq_i + 1] = SetKey(@, "answer", answer)]
             /\ calls' = [calls EXCEPT !.gen = IF generated.ok THEN "ok" ELSE "raise"]
    /\ gen_calls' = gen_calls + 1
    /\ aq_pc' = "pace"
    /\ UNCHANGED <<aq_i, context, use_reranker, sleeps>>
    /\ UNCHANGED <<storeVars, embedVars, chunkVars, postVars, helperVars>>

\* answer_question, lines 54-60 and answer_all_questions line 518
Generate ==
    /\ aq_pc = "generate"
    /\ \E generated \in {Raised} \cup {Returned(a) : a \in RawAnswers} :
         LET answer == _generate_answer(question_data["question_type"], generated)
         IN  /\ questions_json' =
                  [questions_json EXCEPT !["questions"][aq_i + 1] =
                      SetKey(SetKey(@, "answer", answer), "context_used", Len(context))]
             /\ calls' = [calls EXCEPT !.gen = IF generated.ok THEN "ok" ELSE "raise"]
    /\ gen_calls' = gen_calls + 1
    /\ aq_pc' = "pace"
    /\ UNCHANGED <<aq_i, context, use_reranker, sleeps>>
    /\ UNCHANGED <<storeVars, embedVars, chunkVars, postVars, helperVars>>

\* a bug variant of the pacing step: no delay after a question whose
\* answer_question raised
SleepUnlessFailed ==
    /\ aq_pc = "pace"
    /\ aq_i < total_questions - 1
    /\ sleeps' = IF calls.raised THEN sleeps ELSE sleeps + 1
    /\ aq_i' = aq_i + 1
    /\ aq_pc' = "loop"
    /\ context' = <<>>
    /\ calls' = NoCalls
    /\ UNCHANGED <<questions_json, use_reranker, gen_calls>>
    /\ UNCHANGED <<storeVars, embedVars, chunkVars, postVars, helperVars>>

\* answer_all_questions, lines 521-523: the delay between two questions (the locals
\* of the answer_question call that returned are gone)
Sleep ==
    /\ aq_pc = "pace"
    /\ aq_i < total_questions - 1
    /\ sleeps' = sleeps + 1
    /\ aq_i' = aq_i + 1
    /\ aq_pc' = "loop"
    /\ context' = <<>>
    /\ calls' = NoCalls
    /\ UNCHANGED <<questions_json, use_reranker, gen_calls>>
    /\ UNCHANGED <<storeVars, embedVars, chunkVars, postVars, helperVars>>

\* answer_all_questions, line 521 false: no delay after the last question
SkipSleep ==
    /\ aq_pc = "pace"
    /\ ~(aq_i < total_questions - 1)
    /\ aq_i' = aq_i + 1
    /\ aq_pc' = "loop"
    /\ context' = <<>>
    /\ calls' = NoCalls
    /\ UNCHANGED <<questions_json, use_reranker, sleeps, gen_calls>>
    /\ UNCHANGED <<storeVars, embedVars, chunkVars, postVars, helperVars>>

\* a bug variant of the end of answer_all_questions: the metadata is written
\* without waiting for the loop to reach its end
FinishBeforeLoopEnds ==
    /\ aq_pc = "loop"
    /\ questions_json' = SetKey(SetKey(questions_json, "answered_questions", total_questions),
                                "rag_processing_complete", TRUE)
    /\ aq_pc' = "done"
    /\ UNCHANGED <<aq_i, context, use_reranker, calls, sleeps, gen_calls>>
    /\ UNCHANGED <<storeVars, embedVars, chunkVars, postVars, helperVars>>

\* answer_all_questions, lines 526-530: the loop is over
Finish ==
    /\ aq_pc = "loop"
    /\ ~(aq_i < total_questions)
    /\ questions_json' = SetKey(SetKey(questions_json, "answered_questions", total_questions),
                                "rag_processing_complete", TRUE)
    /\ aq_pc' = "done"
    /\ UNCHANGED <<aq_i, context, use_reranker, calls, sleeps, gen_calls>>
    /\ UNCHANGED <<storeVars, embedVars, chunkVars, postVars, helperVars>>

NextRagSteps == Retrieve \/ AnswerQuestionRaises \/ Generate \/ Sleep \/ SkipSleep \/ Finish

-----------------------------------------------------------------------------
(* The parts of the state a specification does not exercise stay idle *)

IdleStore ==
    /\ vs_pc = "idle"
    /\ collection = [exists |-> FALSE, points |-> {}]
    /\ vs_chunks = 0
    /\ force_recreate = FALSE
    /\ upserts = <<>>
    /\ vs_result = "none"
    /\ pipeline = "none"

IdleEmbed ==
    /\ ge_pc = "idle"
    /\ ge_chunks = <<>>
    /\ ge_i = 0
    /\ all_embeddings = <<>>
    /\ embed_calls = <<>>

IdleChunk ==
    /\ ct_pc = "idle"
    /\ ct_text = <<>>
    /\ ct_sections = <<>>
    /\ ct_candidates = <<>>
    /\ ct_chunks = <<>>
    /\ chunk_id = 0

IdlePost ==
    /\ pp_pc = "idle"
    /\ pp_raw = <<>>
    /\ pp_type = TEXTUAL_ANSWER
    /\ pp_answer = <<>>

IdleHelper ==
    /\ hp_pc = "idle"
    /\ hp_arg = <<>>
    /\ hp_result = <<>>

-----------------------------------------------------------------------------
(* Specification of the answering pipeline *)

InitRagSpec == InitRag /\ IdleStore /\ IdleEmbed /\ IdleChunk /\ IdlePost /\ IdleHelper

SpecRag == InitRagSpec /\ [][NextRagSteps]_vars

-----------------------------------------------------------------------------
(* Properties of the answering pipeline, checked under SpecRag *)

Questions == questions_json["questions"]

\* the context the fallback of retrieval gives for the question in hand
Placeholder == << FallbackPrefix \o question_data["question_text"] >>

\* C1: whatever fails for whichever question, answer_all_questions runs to its end
\* (no step before the end is stuck or left by an exception) and returns with
\* rag_processing_complete = True and answered_questions = len(questions).
ThmC1_BatchAlwaysCompletes ==
    /\ aq_pc # "done" => ENABLED NextRagSteps
    /\ aq_pc = "done" =>
         /\ questions_json["rag_processing_complete"] = TRUE
         /\ questions_json["answered_questions"] = Len(Questions)

\* a finished batch of MaxQuestions questions in which every question failed:
\* generation raised for each of them or answer_question itself raised
WitC1_AllQuestionsFailed ==
    /\ aq_pc = "done"
    /\ Len(Questions) = MaxQuestions
    /\ \E a, b \in 1..Len(Questions) :
         /\ StartsWith(Questions[a]["answer"], GenErrorPrefix)
         /\ Questions[b]["answer"] = AnswerErrorText
    /\ \A n \in 1..Len(Questions) :
         \/ StartsWith(Questions[n]["answer"], GenErrorPrefix)
         \/ Questions[n]["answer"] = AnswerErrorText

\* C2 (as claimed): when the generative-model call fails for a question, the
\* question ends with its error field set and its answer an error string.
CexC2_GenerationFailureSetsError ==
    (aq_pc = "pace" /\ calls.gen = "raise") =>
        /\ "error" \in DOMAIN question_data
        /\ StartsWith(question_data["answer"], GenErrorPrefix)

\* C3 (as claimed): reranking enabled, more than one candidate and the rerank call
\* fails: retrieval returns the first rerank_top_n candidate texts in search order.
CexC3_RerankFailureGivesUnranked ==
    (aq_pc = "generate" /\ calls.rerank = "raise") =>
        context = TextsOf(SubSeq(calls.similar, 1, Min(rerank_top_n, Len(calls.similar))))

\* C4: when reranking is disabled, or the vector search returned exactly one
\* candidate, retrieval returns exactly min(rerank_top_n, k) texts of the k
\* candidates, the first ones in vector-search rank order, and the reranking
\* service is not called.
ThmC4_NoRerankReturnsTopInOrder ==
    (/\ aq_pc = "generate"
     /\ calls.search # "none"
     /\ (~use_reranker \/ Len(calls.similar) = 1)) =>
        /\ calls.rerank = "none"
        /\ Len(context) = Min(rerank_top_n, Len(calls.similar))
        /\ \A r \in 1..Len(context) : context[r] = calls.similar[r].text

\* reranking disabled and more candidates than rerank_top_n
WitC4_RerankerOffManyHits ==
    /\ aq_pc = "generate"
    /\ ~use_reranker
    /\ Len(calls.similar) = top_k_results
    /\ Len(context) = rerank_top_n

ThmC6_SearchFailureGivesEmptyContext ==
    /\ (aq_pc \in {"generate", "pace"} /\ calls.search = "raise") => calls.similar = <<>>
    /\ (aq_pc \in {"generate", "pace"} /\ calls.search # "none" /\ calls.similar = <<>>) =>
         /\ context = <<>>
         /\ calls.rerank = "none"
    /\ (aq_pc = "pace" /\ calls.search # "none" /\ calls.similar = <<>>) =>
         /\ calls.gen \in {"ok", "raise"}
         /\ question_data["context_used"] = 0
         /\ question_data["answer"] # None

\* the vector search raised while reranking was enabled, and the question was answered
WitC6_SearchRaisedAnswered ==
    /\ aq_pc = "pace"
    /\ use_reranker
    /\ calls.search = "raise"
    /\ calls.gen = "ok"
    /\ question_data["context_used"] = 0

\* question k (counted from 1) has been through answer_question
Visited(k) == Questions[k]["answer"] # None

\* question k is as the extraction left it
Untouched(k) ==
    /\ Questions[k]["answer"] = None
    /\ DOMAIN Questions[k] = DOMAIN NewQuestion("", None, TEXTUAL_ANSWER, None)

\* C15: questions are handled strictly one at a time in input order: while
\* question i is in retrieval or generation every earlier question is finished
\* and no later one has been started, nothing of a question is in flight when
\* the loop takes the next one, and rag_processing_complete is written only
\* after the last question has been visited.
ThmC15_OneQuestionAtATimeInOrder ==
    /\ aq_pc \in {"loop", "generate", "pace", "done"}
    /\ aq_i <= Len(Questions)
    /\ \A k \in 1..Len(Questions) :
         /\ k <= aq_i => Visited(k)
         /\ k = aq_i + 1 => (Visited(k) <=> aq_pc = "pace")
         /\ k = aq_i + 1 /\ aq_pc # "pace" => Untouched(k)
         /\ k > aq_i + 1 => Untouched(k)
    /\ aq_pc \in {"loop", "done"} => (context = <<>> /\ calls = NoCalls)
    /\ aq_pc = "generate" => (calls.embed # "none" /\ calls.gen = "none")
    /\ aq_pc = "pace" => (calls.gen # "none" \/ calls.raised)
    /\ "rag_processing_complete" \in DOMAIN questions_json =>
         /\ aq_pc = "done"
         /\ aq_i = Len(Questions)
         /\ \A k \in 1..Len(Questions) : Visited(k)
    /\ aq_pc = "done" => "rag_processing_complete" \in DOMAIN questions_json

\* the second of three questions is between retrieval and generation: the first,
\* which failed, is finished and the third has not been started
WitC15_SecondQuestionInHand ==
    /\ Len(Questions) = MaxQuestions
    /\ aq_i = 1
    /\ aq_pc = "generate"
    /\ "error" \in DOMAIN Questions[1]
    /\ Untouched(3)

\* the questions for which _generate_answer has been called
Generated == {k \in 1..Len(Questions) : "context_used" \in DOMAIN Questions[k]}

\* C16: the generative model is called at most once per question, and a delay
\* follows every question but the last, failed or not: when question i (from 0)
\* is in hand exactly i delays have happened, so every earlier generation call
\* is separated from the next one by a delay, and a finished batch of n
\* questions has had exactly max(n-1, 0) delays.
ThmC16_OneCallPerQuestionAndPaced ==
    /\ gen_calls = Cardinality(Generated)
    /\ Generated \subseteq {k \in 1..Len(Questions) : Visited(k)}
    /\ aq_i < Len(Questions) => sleeps = aq_i
    /\ aq_pc = "generate" => gen_calls <= sleeps
    /\ aq_pc = "pace" => gen_calls <= sleeps + 1
    /\ aq_i = Len(Questions) =>
         sleeps = (IF Len(Questions) = 0 THEN 0 ELSE Len(Questions) - 1)

\* a finished batch of three questions whose second failed before generation:
\* two generation calls and two delays
WitC16_FailedQuestionStillPaced ==
    /\ aq_pc = "done"
    /\ Len(Questions) = MaxQuestions
    /\ "error" \in DOMAIN Questions[2]
    /\ gen_calls = 2
    /\ sleeps = 2

\* the fields of a question record the extraction wrote and answering must keep
ExtractedFields == {"question_id", "question_text", "question_type", "options", "metadata"}

\* a record answer_question returned normally: answer and context_used, no error
AnsweredRecord(q) ==
    /\ q["answer"] # None
    /\ "context_used" \in DOMAIN q
    /\ q["context_used"] \in 0..top_k_results
    /\ ~("error" \in DOMAIN q)

\* a record answer_question's handler wrote: fixed answer and error, no context_used
FailedRecord(q) ==
    /\ q["answer"] = AnswerErrorText
    /\ "error" \in DOMAIN q
    /\ ~("context_used" \in DOMAIN q)

\* the shape of the records answering has visited
VisitedRecordsShaped ==
    /\ \A k \in 1..Len(Questions) :
         Visited(k) => (AnsweredRecord(Questions[k]) \/ FailedRecord(Questions[k]))
    /\ aq_pc = "done" => \A k \in 1..Len(Questions) : Visited(k)

\* one step changes at most the record in hand, only if it was not visited yet,
\* and never the fields the extraction wrote
RecordWrittenOnce ==
    /\ Len(Questions') = Len(Questions)
    /\ \A k \in 1..Len(Questions) :
         /\ \A f \in ExtractedFields : Questions'[k][f] = Questions[k][f]
         /\ Visited(k) => Questions'[k] = Questions[k]
         /\ Questions'[k] # Questions[k] => k = aq_i + 1

-----------------------------------------------------------------------------
(* vector_store.py: setup_vector_store, create_collection, store_chunks, and
   steps 4-5 of process_pipeline (app.py) *)

\* bound on the number of full upsert batches of an ingestion
MaxStoreBatches == 2

upsert_batch_size == 100

\* numbers of chunks handed to setup_vector_store
StoreSizes == {0, 1, upsert_batch_size, upsert_batch_size + 1,
               MaxStoreBatches * upsert_batch_size + 1}

\* numbers of points an earlier ingestion left in the collection
OldSizes == {0, 2, upsert_batch_size + 5}

NoCollection == [exists |-> FALSE, points |-> {}]

\* a collection holding the points 0..n-1 of ingestion `tag`
CollectionOf(n, tag) == [exists |-> TRUE, points |-> {<<id, tag>> : id \in 0..(n - 1)}]

\* create_collection: the three client calls may each raise.
\* Gives the return value and the collection afterwards.
create_collection(coll, force, listRaises, deleteRaises, createRaises) ==
    IF listRaises THEN [ok |-> FALSE, collection |-> coll]
    ELSE IF coll.exists /\ ~force THEN [ok |-> TRUE, collection |-> coll]
    ELSE IF coll.exists /\ deleteRaises THEN [ok |-> FALSE, collection |-> coll]
    ELSE IF createRaises THEN [ok |-> FALSE, collection |-> NoCollection]
    ELSE [ok |-> TRUE, collection |-> [exists |-> TRUE, points |-> {}]]

\* client.upsert of the points first..last of the new ingestion: a point with
\* the id of a stored point replaces it
UpsertPoints(coll, first, last) ==
    [coll EXCEPT !.points = {pt \in @ : ~(pt[1] \in first..last)}
                            \cup {<<id, "new">> : id \in first..last}]

InitStore ==
    /\ vs_pc = "create"
    /\ collection \in {NoCollection} \cup {CollectionOf(n, "old") : n \in OldSizes}
    /\ vs_chunks \in StoreSizes
    /\ force_recreate \in BOOLEAN
    /\ upserts = <<>>
    /\ vs_result = "none"
    /\ pipeline = "step4"

\* setup_vector_store, lines 229-233
CreateCollection ==
    /\ vs_pc = "create"
    /\ \E listRaises, deleteRaises, createRaises \in BOOLEAN :
         LET r == create_collection(collection, force_recreate,
                                    listRaises, deleteRaises, createRaises)
         IN  /\ collection' = r.collection
             /\ vs_pc' = IF r.ok THEN "store" ELSE "raised"
             /\ vs_result' = IF r.ok THEN "none"
                             ELSE "RuntimeError: Failed to create vector store collection"
    /\ UNCHANGED <<vs_chunks, force_recreate, upserts, pipeline>>
    /\ UNCHANGED <<ragVars, embedVars, chunkVars, postVars, helperVars>>

\* loop variable i of store_chunks, line 105
upsert_i == Len(upserts) * upsert_batch_size

\* a bug variant of the batch step: a failed upsert is logged and the loop goes on
UpsertBatchKeepsGoing ==
    /\ vs_pc = "store"
    /\ upsert_i < vs_chunks
    /\ \E raises \in BOOLEAN :
         LET first == upsert_i
             last  == Min(upsert_i + upsert_batch_size, vs_chunks) - 1
         IN  /\ upserts' = Append(upserts, [first |-> first, last |-> last,
                                            status |-> IF raises THEN "fail" ELSE "ok"])
             /\ collection' = IF raises THEN collection
                              ELSE UpsertPoints(collection, first, last)
    /\ UNCHANGED <<vs_pc, vs_result, vs_chunks, force_recreate, pipeline>>
    /\ UNCHANGED <<ragVars, embedVars, chunkVars, postVars, helperVars>>

\* a bug variant of the batch step: a failed upsert takes back the points the
\* earlier batches stored
UpsertBatchRollsBack ==
    /\ vs_pc = "store"
    /\ upsert_i < vs_chunks
    /\ \E raises \in BOOLEAN :
         LET first == upsert_i
             last  == Min(upsert_i + upsert_batch_size, vs_chunks) - 1
         IN  /\ upserts' = Append(upserts, [first |-> first, last |-> last,
                                            status |-> IF raises THEN "fail" ELSE "ok"])
             /\ collection' = IF raises
                              THEN [collection EXCEPT !.points = {pt \in @ : pt[2] # "new"}]
                              ELSE UpsertPoints(collection, first, last)
             /\ vs_pc' = IF raises THEN "raised" ELSE "store"
             /\ vs_result' = IF raises
                             THEN "RuntimeError: Failed to store chunks in vector store"
                             ELSE "none"
    /\ UNCHANGED <<vs_chunks, force_recreate, pipeline>>
    /\ UNCHANGED <<ragVars, embedVars, chunkVars, postVars, helperVars>>

\* store_chunks, lines 105-111 (one batch), with lines 116-118 and
\* setup_vector_store lines 236-237 when the upsert raises
UpsertBatch ==
    /\ vs_pc = "store"
    /\ upsert_i < vs_chunks
    /\ \E raises \in BOOLEAN :
         LET first == upsert_i
             last  == Min(upsert_i + upsert_batch_size, vs_chunks) - 1
         IN  /\ upserts' = Append(upserts, [first |-> first, last |-> last,
                                            status |-> IF raises THEN "fail" ELSE "ok"])
             /\ collection' = IF raises THEN collection
                              ELSE UpsertPoints(collection, first, last)
             /\ vs_pc' = IF raises THEN "raised" ELSE "store"
             /\ vs_result' = IF raises
                             THEN "RuntimeError: Failed to store chunks in vector store"
                             ELSE "none"
    /\ UNCHANGED <<vs_chunks, force_recreate, pipeline>>
    /\ UNCHANGED <<ragVars, embedVars, chunkVars, postVars, helperVars>>

\* store_chunks, lines 113-114, and setup_vector_store line 239
StoreChunksDone ==
    /\ vs_pc = "store"
    /\ ~(upsert_i < vs_chunks)
    /\ vs_pc' = "returned"
    /\ vs_result' = "VectorStore"
    /\ UNCHANGED <<collection, vs_chunks, force_recreate, upserts, pipeline>>
    /\ UNCHANGED <<ragVars, embedVars, chunkVars, postVars, helperVars>>

\* process_pipeline, lines 155-162: the set-up returned, the questions are answered
PipelineAnswers ==
    /\ vs_pc = "returned"
    /\ pipeline = "step4"
    /\ pipeline' = "answered"
    /\ UNCHANGED <<vs_pc, collection, vs_chunks, force_recreate, upserts, vs_result>>
    /\ UNCHANGED <<ragVars, embedVars, chunkVars, postVars, helperVars>>

\* process_pipeline, lines 190-192: the set-up raised, the pipeline reports and ends
PipelineFails ==
    /\ vs_pc = "raised"
    /\ pipeline = "step4"
    /\ pipeline' = "error"
    /\ UNCHANGED <<vs_pc, collection, vs_chunks, force_recreate, upserts, vs_result>>
    /\ UNCHANGED <<ragVars, embedVars, chunkVars, postVars, helperVars>>

NextStoreSteps ==
    CreateCollection \/ UpsertBatch \/ StoreChunksDone \/ PipelineAnswers \/ PipelineFails

InitStoreSpec == IdleRag /\ InitStore /\ IdleEmbed /\ IdleChunk /\ IdlePost /\ IdleHelper

SpecStore == InitStoreSpec /\ [][NextStoreSteps]_vars

-----------------------------------------------------------------------------
(* Properties of the vector store set-up, checked under SpecStore *)

CreateFailed == vs_result = "RuntimeError: Failed to create vector store collection"
StoreFailed  == vs_result = "RuntimeError: Failed to store chunks in vector store"
SomeUpsertFailed == \E n \in 1..Len(upserts) : upserts[n].status = "fail"

\* C7: a failure of create_collection makes setup_vector_store raise before any
\* upsert is attempted; a failed upsert batch makes it raise and return no
\* VectorStore; and process_pipeline answers questions only after a set-up in
\* which the collection was created and every batch was stored.
ThmC7_SetupFailuresAreFatal ==
    /\ CreateFailed => (vs_pc = "raised" /\ upserts = <<>>)
    /\ SomeUpsertFailed => (vs_pc = "raised" /\ StoreFailed /\ pipeline # "answered")
    /\ vs_pc = "raised" => (CreateFailed \/ StoreFailed) /\ pipeline # "answered"
    /\ (vs_pc = "returned" \/ pipeline = "answered") =>
         /\ vs_result = "VectorStore"
         /\ collection.exists
         /\ ~SomeUpsertFailed
         /\ \A id \in 0..(vs_chunks - 1) : <<id, "new">> \in collection.points

\* the second upsert batch failed after the first was stored, and the pipeline
\* ended in its error handler
WitC7_SecondBatchFailed ==
    /\ Len(upserts) = 2
    /\ upserts[1].status = "ok"
    /\ upserts[2].status = "fail"
    /\ pipeline = "error"

\* the points the new ingestion stores: one per chunk, with the chunk's id
NewPoints == {<<id, "new">> : id \in 0..(vs_chunks - 1)}

\* C17 (as claimed): after setup_vector_store succeeds on a collection that
\* already holds chunks of an earlier ingestion, the collection holds exactly
\* the chunks of the new ingestion, whatever the value of force_recreate.
CexC17_ReingestionReplacesWholesale ==
    vs_pc = "returned" => collection.points = NewPoints

\* the points of the chunks at the 0-based positions below n
PrefixPoints(n) == {<<id, "new">> : id \in 0..(n - 1)}

\* C29: store_chunks has no rollback. When the upsert of a batch fails, every
\* batch before it was stored and its points stay in the collection, the
\* failed batch is the last one sent, store_chunks returns False (and
\* setup_vector_store raises), and of the new chunks the collection holds a
\* strict prefix of the chunk list: those before the failed batch and no
\* other. A collection created for this ingestion holds nothing else.
ThmC29_FailedUpsertLeavesStrictPrefix ==
    \A k \in 1..Len(upserts) :
       upserts[k].status = "fail" =>
          /\ k = Len(upserts)
          /\ \A n \in 1..(k - 1) : upserts[n].status = "ok"
          /\ vs_pc = "raised" /\ StoreFailed
          /\ upserts[k].first = (k - 1) * upsert_batch_size
          /\ upserts[k].first < vs_chunks
          /\ PrefixPoints(upserts[k].first) \subseteq collection.points
          /\ \A pt \in collection.points :
                pt \in PrefixPoints(upserts[k].first)
                \/ (pt[2] = "old" /\ pt[1] >= upserts[k].first /\ ~force_recreate)

\* the third batch failed: the 200 points of the first two batches are in the
\* collection, the chunk at position 200 is not
WitC29_TwoBatchesLeftBehind ==
    /\ vs_pc = "raised"
    /\ Len(upserts) = 3
    /\ upserts[3].status = "fail"
    /\ collection.points = PrefixPoints(2 * upsert_batch_size)
    /\ vs_chunks > 2 * upsert_batch_size

-----------------------------------------------------------------------------
(* knowledge_processor.py: KnowledgeProcessor.generate_embeddings *)

\* bound on the number of full embedding batches of an ingestion
MaxEmbedBatches == 2

embed_batch_size   == 96
fallback_dimension == 1536

\* numbers of chunks handed to generate_embeddings
EmbedSizes ==
    {0, 1, 2} \cup { b * embed_batch_size + d : b \in 1..MaxEmbedBatches, d \in {-1, 0, 1} }

\* the chunk list: the text of chunk number n stands for itself as the number n
ChunksToEmbed(n) == [c \in 1..n |-> [chunk_id |-> c - 1, text |-> c - 1]]

\* a float vector of `len` components, all equal to `fill`: [fill] * len
Vector(fill, len) == [fill |-> fill, len |-> len]

\* the vector the provider returns for a text: of the model's dimension, never
\* zero, and different for different texts
ProviderVector(text) == Vector(text + 1, embedding_dimension)

\* response.embeddings.float_ for a batch: one vector per text, in the order sent
ProviderEmbeddings(batch_texts) ==
    [j \in 1..Len(batch_texts) |-> ProviderVector(batch_texts[j])]

\* a bug variant of the fallback: zero vectors of the dimension of another model
ZeroEmbeddings1024(batch_texts) ==
    [j \in 1..Len(batch_texts) |-> Vector(0, 1024)]

\* line 508: [[0.0] * 1536 for _ in batch_texts]
ZeroEmbeddings(batch_texts) ==
    [j \in 1..Len(batch_texts) |-> Vector(0, fallback_dimension)]

InitEmbed ==
    /\ ge_pc = "batches"
    /\ \E n \in EmbedSizes : ge_chunks = ChunksToEmbed(n)
    /\ ge_i = 0
    /\ all_embeddings = <<>>
    /\ embed_calls = <<>>

\* line 483: texts = [chunk["text"] for chunk in chunks]
texts == [c \in 1..Len(ge_chunks) |-> ge_chunks[c].text]

\* lines 489-509: one pass of the batch loop
EmbedBatch ==
    /\ ge_pc = "batches"
    /\ ge_i < Len(texts)
    /\ \E raises \in BOOLEAN :
         LET batch_texts == Slice(texts, ge_i, Min(ge_i + embed_batch_size, Len(texts)))
             batch_embeddings == IF raises THEN ZeroEmbeddings(batch_texts)
                                 ELSE ProviderEmbeddings(batch_texts)
         IN  /\ all_embeddings' = all_embeddings \o batch_embeddings
             /\ embed_calls' = Append(embed_calls,
                                      [first |-> ge_i, count |-> Len(batch_texts),
                                       status |-> IF raises THEN "fail" ELSE "ok"])
    /\ ge_i' = ge_i + embed_batch_size
    /\ UNCHANGED <<ge_pc, ge_chunks>>
    /\ UNCHANGED <<ragVars, storeVars, chunkVars, postVars, helperVars>>

\* line 489: the range is exhausted
EmbedLoopExit ==
    /\ ge_pc = "batches"
    /\ ~(ge_i < Len(texts))
    /\ ge_pc' = "assign"
    /\ UNCHANGED <<ge_chunks, ge_i, all_embeddings, embed_calls>>
    /\ UNCHANGED <<ragVars, storeVars, chunkVars, postVars, helperVars>>

\* lines 511-517: the embeddings are written into the chunks
AssignEmbeddings ==
    /\ ge_pc = "assign"
    /\ ge_chunks' = [c \in 1..Len(ge_chunks) |->
                        SetKey(SetKey(ge_chunks[c], "embedding", all_embeddings[c]),
                               "embedding_model", "cohere-embed-v4.0")]
    /\ ge_pc' = "done"
    /\ UNCHANGED <<ge_i, all_embeddings, embed_calls>>
    /\ UNCHANGED <<ragVars, storeVars, chunkVars, postVars, helperVars>>

NextEmbedSteps == EmbedBatch \/ EmbedLoopExit \/ AssignEmbeddings

InitEmbedSpec == IdleRag /\ IdleStore /\ InitEmbed /\ IdleChunk /\ IdlePost /\ IdleHelper

SpecEmbed == InitEmbedSpec /\ [][NextEmbedSteps]_vars

-----------------------------------------------------------------------------
(* Properties of embedding generation, checked under SpecEmbed *)

\* the embed call that covered the chunk at 1-based position c
CallOf(c) == embed_calls[((c - 1) \div embed_batch_size) + 1]

IsZeroVector(v, dim) == v.len = dim /\ v.fill = 0

\* C8: whichever embedding batches fail, generate_embeddings ends with every
\* chunk carrying an embedding: a chunk of a failed batch has the zero vector
\* of the configured embedding dimension, a chunk of a successful batch has
\* the provider's vector for its own text.
ThmC8_EveryChunkGetsAnEmbedding ==
    /\ ge_pc # "done" => ENABLED NextEmbedSteps
    /\ ge_pc = "done" =>
         /\ Len(embed_calls) = (Len(ge_chunks) + embed_batch_size - 1) \div embed_batch_size
         /\ \A c \in 1..Len(ge_chunks) :
              /\ "embedding" \in DOMAIN ge_chunks[c]
              /\ CallOf(c).status = "fail" =>
                   IsZeroVector(ge_chunks[c]["embedding"], embedding_dimension)
              /\ CallOf(c).status = "ok" =>
                   ge_chunks[c]["embedding"] = ProviderVector(ge_chunks[c].text)

\* three batches of which only the middle one failed
WitC8_MiddleBatchFailed ==
    /\ ge_pc = "done"
    /\ Len(embed_calls) = 3
    /\ embed_calls[1].status = "ok"
    /\ embed_calls[2].status = "fail"
    /\ embed_calls[3].status = "ok"
    /\ IsZeroVector(ge_chunks[embed_batch_size + 1]["embedding"], embedding_dimension)
    /\ ~IsZeroVector(ge_chunks[2 * embed_batch_size + 1]["embedding"], embedding_dimension)

-----------------------------------------------------------------------------
(* knowledge_processor.py: KnowledgeProcessor._parse_document_structure *)

\* re.match(r'^(#{1,6})\s+(.+)$', line) on a stripped line without newline:
\* 1 to 6 '#', whitespace, and a non-empty rest
HeaderMatch(line) ==
    LET hashes == RunLen(line, 0, {"#"})
        blanks == RunLen(line, hashes, Whitespace)
    IN  IF hashes >= 1 /\ hashes <= 6 /\ blanks >= 1 /\ hashes + blanks < Len(line)
        THEN [matched |-> TRUE, group1 |-> Slice(line, 0, hashes),
              group2 |-> Slice(line, hashes + blanks, Len(line))]
        ELSE [matched |-> FALSE]

\* Python truth value of `current_section and current_content`
Truthy(x) == x # None /\ x # <<>>

\* a variant of the loop body in which a heading of level <= 2 leaves the
\* subsection label as it was
ParseLineKeepsSubsection(st, line, header_match) ==
    IF header_match.matched
    THEN LET level == Len(header_match.group1)
             title == Strip(header_match.group2)
         IN  [sections           |-> IF Truthy(st.current_section)
                                        /\ st.current_content # <<>>
                                     THEN Append(st.sections,
                                            [section    |-> st.current_section,
                                             subsection |-> st.current_subsection,
                                             content    |-> Join(st.current_content,
                                                                 <<"\n">>),
                                             level      |-> level,
                                             title      |-> header_match.group2])
                                     ELSE st.sections,
              current_section    |-> IF level <= 2 THEN title ELSE st.current_section,
              current_subsection |-> IF level <= 2 THEN st.current_subsection ELSE title,
              current_content    |-> <<line>>]
    ELSE [st EXCEPT !.current_content = Append(@, line)]

\* lines 113-135, the loop body for one line; header_match is the result of
\* re.match on line.strip(), st holds the locals sections, current_section,
\* current_subsection, current_content
ParseLine(st, line, header_match) ==
    IF header_match.matched
    THEN LET level == Len(header_match.group1)
             title == Strip(header_match.group2)
         IN  [sections           |-> IF Truthy(st.current_section)
                                        /\ st.current_content # <<>>
                                     THEN Append(st.sections,
                                            [section    |-> st.current_section,
                                             subsection |-> st.current_subsection,
                                             content    |-> Join(st.current_content,
                                                                 <<"\n">>),
                                             level      |-> level,
                                             title      |-> header_match.group2])
                                     ELSE st.sections,
              current_section    |-> IF level <= 2 THEN title ELSE st.current_section,
              current_subsection |-> IF level <= 2 THEN None ELSE title,
              current_content    |-> <<line>>]
    ELSE [st EXCEPT !.current_content = Append(@, line)]

\* the loop `for line in lines` from the k-th line on
RECURSIVE ParseLines(_, _, _)
ParseLines(lines, k, st) ==
    IF k > Len(lines) THEN st
    ELSE ParseLines(lines, k + 1, ParseLine(st, lines[k], HeaderMatch(Strip(lines[k]))))

\* a variant without lines 138-146: the section still open at the end is lost
NoFinalSection(st) == st.sections

\* lines 138-146: the section still open when the lines run out
FinalSection(st) ==
    IF Truthy(st.current_section) /\ st.current_content # <<>>
    THEN Append(st.sections,
                [section    |-> st.current_section,
                 subsection |-> st.current_subsection,
                 content    |-> Join(st.current_content, <<"\n">>),
                 level      |-> 1,
                 title      |-> st.current_section])
    ELSE st.sections

_parse_document_structure(text) ==
    FinalSection(ParseLines(SplitOn(text, "\n"), 1,
                            [sections |-> <<>>, current_section |-> None,
                             current_subsection |-> None, current_content |-> <<>>]))

\* s.split(sep) for a separator of one or more characters
RECURSIVE SplitOnSeq(_, _)
SplitOnSeq(s, sep) ==
    LET i == FindFrom(s, sep, 0)
    IN  IF i = -1 THEN <<s>>
        ELSE <<Slice(s, 0, i)>> \o SplitOnSeq(Slice(s, i + Len(sep), Len(s)), sep)

\* any(p in s for p in patterns)
ContainsAny(s, patterns) == \E p \in patterns : Contains(s, p)

-----------------------------------------------------------------------------
(* knowledge_processor.py: keywords and content type *)

cinema_keywords ==
    << <<"d", "i", "r", "e", "c", "t", "o", "r">>,
       <<"a", "c", "t", "o", "r">>,
       <<"a", "c", "t", "r", "e", "s", "s">>,
       <<"f", "i", "l", "m">>,
       <<"m", "o", "v", "i", "e">>,
       <<"b", "o", "l", "l", "y", "w", "o", "o", "d">>,
       <<"c", "i", "n", "e", "m", "a">>,
       <<"b", "o", "x", " ", "o", "f", "f", "i", "c", "e">>,
       <<"a", "w", "a", "r", "d">>,
       <<"m", "u", "s", "i", "c">>,
       <<"s", "o", "n", "g">>,
       <<"d", "a", "n", "c", "e">>,
       <<"r", "o", "m", "a", "n", "c", "e">>,
       <<"c", "o", "m", "e", "d", "y">>,
       <<"d", "r", "a", "m", "a">>,
       <<"a", "c", "t", "i", "o", "n">>,
       <<"t", "h", "r", "i", "l", "l", "e", "r">>,
       <<"p", "e", "r", "f", "o", "r", "m", "a", "n", "c", "e">>,
       <<"d", "e", "b", "u", "t">>,
       <<"s", "u", "c", "c", "e", "s", "s">>,
       <<"c", "o", "m", "m", "e", "r", "c", "i", "a", "l">>,
       <<"c", "r", "i", "t", "i", "c", "a", "l">>,
       <<"b", "l", "o", "c", "k", "b", "u", "s", "t", "e", "r">>,
       <<"h", "i", "t">>,
       <<"f", "l", "o", "p">> >>

\* the sub-list of `list` whose entries satisfy: contained in text
RECURSIVE KeywordsIn(_, _, _)
KeywordsIn(text_lower, list, k) ==
    IF k > Len(list) THEN <<>>
    ELSE (IF Contains(text_lower, list[k]) THEN <<list[k]>> ELSE <<>>)
         \o KeywordsIn(text_lower, list, k + 1)

_extract_keywords(text) == KeywordsIn(Lower(text), cinema_keywords, 1)

FilmIndicators ==
    { <<"d", "i", "r", "e", "c", "t", "o", "r", ":">>,
      <<"m", "u", "s", "i", "c", ":">>,
      <<"p", "l", "o", "t", ":">>,
      <<"a", "c", "t", "o", "r", "s", ":">>,
      <<"t", "h", "e", "m", "e", "s", ":">> }

PersonIndicators ==
    { <<"s", "i", "g", "n", "a", "t", "u", "r", "e", ":">>,
      <<"e", "v", "o", "l", "u", "t", "i", "o", "n", ":">>,
      <<"i", "m", "p", "a", "c", "t", ":">>,
      <<"n", "o", "t", "a", "b", "l", "e", " ", "r", "o", "l", "e", "s", ":">> }

\* line 240: the number of markers above which content is a list
list_marker_threshold == 5

\* a variant that looks for the indicators in content as written
_classify_content_type_case_sensitive(content) ==
    IF ContainsAny(content, FilmIndicators) THEN "film_info"
    ELSE IF ContainsAny(content, PersonIndicators) THEN "person_info"
    ELSE IF Count(content, "*") > list_marker_threshold
            \/ Count(content, "-") > list_marker_threshold THEN "list"
    ELSE "general"

\* a variant of line 240 that takes five markers for a list already
_classify_content_type_from_five(content) ==
    IF ContainsAny(Lower(content), FilmIndicators) THEN "film_info"
    ELSE IF ContainsAny(Lower(content), PersonIndicators) THEN "person_info"
    ELSE IF Count(content, "*") >= list_marker_threshold
            \/ Count(content, "-") >= list_marker_threshold THEN "list"
    ELSE "general"

_classify_content_type(content) ==
    LET content_lower == Lower(content)
    IN  IF ContainsAny(content_lower, FilmIndicators) THEN "film_info"
        ELSE IF ContainsAny(content_lower, PersonIndicators) THEN "person_info"
        ELSE IF Count(content, "*") > list_marker_threshold
                \/ Count(content, "-") > list_marker_threshold THEN "list"
        ELSE "general"

-----------------------------------------------------------------------------
(* knowledge_processor.py: the four chunking strategies *)

\* the character of s at 0-based index i, or "" past the end
At(s, i) == IF i >= 0 /\ i < Len(s) THEN s[i + 1] ELSE ""

\* a match of r'\*\*\d+\.\s+([^*]+)\*\*' starting at index i: its end and its
\* group 1, or end = -1.  \s+ is greedy but leaves one character to [^*]+.
FilmMatchAt(s, i) ==
    LET digits == RunLen(s, i + 2, Digits)
        j      == i + 2 + digits + 1
        span   == RunLenNot(s, j, {"*"})
        blanks == Min(RunLen(s, j, Whitespace), span - 1)
    IN  IF /\ At(s, i) = "*" /\ At(s, i + 1) = "*"
           /\ digits >= 1
           /\ At(s, i + 2 + digits) = "."
           /\ At(s, j) \in Whitespace
           /\ span >= 2
           /\ At(s, j + span) = "*" /\ At(s, j + span + 1) = "*"
        THEN [start |-> i, end |-> j + span + 2, group1 |-> Slice(s, j + blanks, j + span)]
        ELSE [start |-> i, end |-> -1, group1 |-> <<>>]

\* a match of r'\*\s+\*\*([^*]+):\*\*' starting at index i
PersonMatchAt(s, i) ==
    LET blanks == RunLen(s, i + 1, Whitespace)
        j      == i + 1 + blanks + 2
        span   == RunLenNot(s, j, {"*"})
    IN  IF /\ At(s, i) = "*"
           /\ blanks >= 1
           /\ At(s, i + 1 + blanks) = "*" /\ At(s, i + 2 + blanks) = "*"
           /\ span >= 2
           /\ At(s, j + span - 1) = ":"
           /\ At(s, j + span) = "*" /\ At(s, j + span + 1) = "*"
        THEN [start |-> i, end |-> j + span + 2, group1 |-> Slice(s, j, j + span - 1)]
        ELSE [start |-> i, end |-> -1, group1 |-> <<>>]

\* a match of r'\*([^*]+)\*|"([^"]+)"' starting at index i; film is
\* film_tuple[0] or film_tuple[1]
FilmTitleMatchAt(s, i) ==
    LET quote == IF At(s, i) = "*" THEN "*" ELSE "\""
        span  == RunLenNot(s, i + 1, {quote})
    IN  IF At(s, i) \in {"*", "\""} /\ span >= 1 /\ At(s, i + 1 + span) = quote
        THEN [start |-> i, end |-> i + span + 2, group1 |-> Slice(s, i + 1, i + 1 + span)]
        ELSE [start |-> i, end |-> -1, group1 |-> <<>>]

\* \b between index i - 1 and index i
WordBoundary(s, i) == (At(s, i - 1) \in WordChars) # (At(s, i) \in WordChars)

\* a match of r'\b(19|20)\d{2}\b' starting at index i
YearMatchAt(s, i) ==
    IF /\ WordBoundary(s, i)
       /\ <<At(s, i), At(s, i + 1)>> \in {<<"1", "9">>, <<"2", "0">>}
       /\ At(s, i + 2) \in Digits /\ At(s, i + 3) \in Digits
       /\ WordBoundary(s, i + 4)
    THEN [start |-> i, end |-> i + 4, group1 |-> Slice(s, i, i + 2)]
    ELSE [start |-> i, end |-> -1, group1 |-> <<>>]

\* the end of [A-Z][a-z]+ matched greedily at index i, or -1
CapitalizedEnd(s, i) ==
    LET run == RunLen(s, i + 1, LowerCase)
    IN  IF At(s, i) \in UpperCase /\ run >= 1 THEN i + 1 + run ELSE -1

\* the ends reached by (?:\s+[A-Z][a-z]+)* from index e on, one per repetition
RECURSIVE MoreCapitalized(_, _)
MoreCapitalized(s, e) ==
    LET blanks == RunLen(s, e, Whitespace)
        next   == CapitalizedEnd(s, e + blanks)
    IN  IF blanks >= 1 /\ next # -1 THEN <<next>> \o MoreCapitalized(s, next) ELSE <<>>

\* the ends of the second and the later words of a name whose first word ends
\* at index first: a single space, a capitalized word, then more of them
NameWordEnds(s, first, second) ==
    IF first # -1 /\ At(s, first) = " " /\ second # -1
    THEN <<second>> \o MoreCapitalized(s, second)
    ELSE <<>>

\* where the closing \b lets the name end: after the last word, or after the
\* one before it when no word boundary follows the last
NameEnd(s, ends) ==
    IF ends = <<>> THEN -1
    ELSE IF WordBoundary(s, ends[Len(ends)]) THEN ends[Len(ends)]
    ELSE IF Len(ends) >= 2 THEN ends[Len(ends) - 1]
    ELSE -1

NameMatchEnding(s, i, last) ==
    IF WordBoundary(s, i) /\ last # -1
    THEN [start |-> i, end |-> last, group1 |-> Slice(s, i, last)]
    ELSE [start |-> i, end |-> -1, group1 |-> <<>>]

NameMatchFrom(s, i, first) ==
    NameMatchEnding(s, i, NameEnd(s, NameWordEnds(s, first, CapitalizedEnd(s, first + 1))))

\* a match of r'\b[A-Z][a-z]+ [A-Z][a-z]+(?:\s+[A-Z][a-z]+)*\b' starting at
\* index i (the whole match is in group1)
NameMatchAt(s, i) == NameMatchFrom(s, i, CapitalizedEnd(s, i))

\* kind selects the pattern
MatchAt(kind, s, i) ==
    CASE kind = "film"   -> FilmMatchAt(s, i)
      [] kind = "person" -> PersonMatchAt(s, i)
      [] kind = "title"  -> FilmTitleMatchAt(s, i)
      [] kind = "year"   -> YearMatchAt(s, i)
      [] kind = "name"   -> NameMatchAt(s, i)

\* of the matches found, the leftmost one at or after index from, then the
\* leftmost one at or after its end, and so on
RECURSIVE Leftmost(_, _)
Leftmost(found, from) ==
    LET later == {m \in found : m.start >= from}
    IN  IF later = {} THEN <<>>
        ELSE LET first == CHOOSE m \in later : \A n \in later : m.start <= n.start
             IN  <<first>> \o Leftmost(later, first.end)

\* list(re.finditer(pattern, s)): leftmost matches, each search resuming at the
\* end of the match before
FindIter(kind, s, from) ==
    Leftmost({m \in {MatchAt(kind, s, i) : i \in from..(Len(s) - 1)} : m.end # -1}, from)

\* a variant of lines 337-350 in which every chunk runs to the end of content
EntryChunksToEnd(kind, content, matches, section, subsection) ==
    [i \in 1..Len(matches) |->
       LET entry == [text       |-> Strip(Slice(content, matches[i].start, Len(content))),
                     section    |-> section,
                     subsection |-> subsection]
       IN  IF kind = "film"
           THEN entry @@ [type |-> "film_entry", film_title |-> matches[i].group1]
           ELSE entry @@ [type |-> "person_entry", person_name |-> matches[i].group1]]

\* a variant of lines 337-350 in which the first chunk starts where the
\* content starts
EntryChunksFromStart(kind, content, matches, section, subsection) ==
    [i \in 1..Len(matches) |->
       LET start_pos == IF i = 1 THEN 0 ELSE matches[i].start
           end_pos   == IF i + 1 <= Len(matches) THEN matches[i + 1].start
                        ELSE Len(content)
           entry     == [text       |-> Strip(Slice(content, start_pos, end_pos)),
                         section    |-> section,
                         subsection |-> subsection]
       IN  IF kind = "film"
           THEN entry @@ [type |-> "film_entry", film_title |-> matches[i].group1]
           ELSE entry @@ [type |-> "person_entry", person_name |-> matches[i].group1]]

\* lines 337-350 / 362-375: one chunk per match, up to the next match or the end
EntryChunks(kind, content, matches, section, subsection) ==
    [i \in 1..Len(matches) |->
       LET start_pos == matches[i].start
           end_pos   == IF i + 1 <= Len(matches) THEN matches[i + 1].start
                        ELSE Len(content)
           entry     == [text       |-> Strip(Slice(content, start_pos, end_pos)),
                         section    |-> section,
                         subsection |-> subsection]
       IN  IF kind = "film"
           THEN entry @@ [type |-> "film_entry", film_title |-> matches[i].group1]
           ELSE entry @@ [type |-> "person_entry", person_name |-> matches[i].group1]]

_chunk_film_info(content, section, subsection) ==
    EntryChunks("film", content, FindIter("film", content, 0), section, subsection)

_chunk_person_info(content, section, subsection) ==
    EntryChunks("person", content, FindIter("person", content, 0), section, subsection)

\* a variant of the loop that flushes as soon as the budget is reached
RECURSIVE AccumulateFlushesEarly(_, _, _, _, _, _, _)
AccumulateFlushesEarly(parts, k, acc, sep, type, section, subsection) ==
    LET flushed == Append(acc.chunks,
                          [text       |-> Join(acc.current_chunk, sep),
                           section    |-> section,
                           subsection |-> subsection,
                           type       |-> type])
    IN  IF k > Len(parts)
        THEN IF acc.current_chunk # <<>> THEN flushed ELSE acc.chunks
        ELSE IF acc.current_size + Len(parts[k]) >= chunk_size /\ acc.current_chunk # <<>>
             THEN AccumulateFlushesEarly(parts, k + 1,
                                 [chunks |-> flushed, current_chunk |-> <<parts[k]>>,
                                  current_size |-> Len(parts[k])],
                                 sep, type, section, subsection)
             ELSE AccumulateFlushesEarly(parts, k + 1,
                                 [chunks |-> acc.chunks,
                                  current_chunk |-> Append(acc.current_chunk, parts[k]),
                                  current_size |-> acc.current_size + Len(parts[k])],
                                 sep, type, section, subsection)

\* the accumulation loop shared by _chunk_list_content (lines 388-410) and
\* _chunk_general_content (lines 424-446) from the k-th part on; parts are the
\* lines or the paragraphs, sep joins them, acc holds chunks, current_chunk
\* and current_size
RECURSIVE Accumulate(_, _, _, _, _, _, _)
Accumulate(parts, k, acc, sep, type, section, subsection) ==
    LET flushed == Append(acc.chunks,
                          [text       |-> Join(acc.current_chunk, sep),
                           section    |-> section,
                           subsection |-> subsection,
                           type       |-> type])
    IN  IF k > Len(parts)
        THEN IF acc.current_chunk # <<>> THEN flushed ELSE acc.chunks
        ELSE LET part == parts[k]
                 size == Len(part)
             IN  IF acc.current_size + size > chunk_size /\ acc.current_chunk # <<>>
                 THEN Accumulate(parts, k + 1,
                                 [chunks |-> flushed, current_chunk |-> <<part>>,
                                  current_size |-> size],
                                 sep, type, section, subsection)
                 ELSE Accumulate(parts, k + 1,
                                 [chunks |-> acc.chunks,
                                  current_chunk |-> Append(acc.current_chunk, part),
                                  current_size |-> acc.current_size + size],
                                 sep, type, section, subsection)

EmptyAccumulator == [chunks |-> <<>>, current_chunk |-> <<>>, current_size |-> 0]

_chunk_list_content(content, section, subsection) ==
    Accumulate(SplitOn(content, "\n"), 1, EmptyAccumulator, <<"\n">>,
               "list_chunk", section, subsection)

\* line 419: [p.strip() for p in content.split('\n\n') if p.strip()]
RECURSIVE StrippedNonEmpty(_, _)
StrippedNonEmpty(parts, k) ==
    IF k > Len(parts) THEN <<>>
    ELSE (IF Strip(parts[k]) # <<>> THEN <<Strip(parts[k])>> ELSE <<>>)
         \o StrippedNonEmpty(parts, k + 1)

_chunk_general_content(content, section, subsection) ==
    Accumulate(StrippedNonEmpty(SplitOnSeq(content, <<"\n", "\n">>), 1), 1,
               EmptyAccumulator, <<"\n", "\n">>, "content_chunk", section, subsection)

-----------------------------------------------------------------------------
(* knowledge_processor.py: entities and importance *)

FilmTag   == <<"F", "I", "L", "M", ":">>
YearTag   == <<"Y", "E", "A", "R", ":">>
PersonTag == <<"P", "E", "R", "S", "O", "N", ":">>

\* line 198: a film title is an entity when longer than this
min_title_chars == 2

\* line 209: names[:10]
name_limit == 10

\* lines 196-209: the entities of the three findall results
TaggedEntities(films, years, names) ==
    {FilmTag \o films[k].group1 :
        k \in {j \in 1..Len(films) : Len(films[j].group1) > min_title_chars}}
    \cup {YearTag \o years[k].group1 : k \in 1..Len(years)}
    \cup {PersonTag \o names[k].group1 : k \in 1..Min(Len(names), name_limit)}

\* set(entities)
EntitySet(text) ==
    TaggedEntities(FindIter("title", text, 0), FindIter("year", text, 0),
                   FindIter("name", text, 0))

\* the elements of S one after the other, in some fixed order
RECURSIVE SetToSeq(_)
SetToSeq(S) ==
    IF S = {} THEN <<>>
    ELSE LET x == CHOOSE y \in S : TRUE
         IN  <<x>> \o SetToSeq(S \ {x})

\* seq with its first k elements moved to the end
Rotate(seq, k) == [i \in 1..Len(seq) |-> seq[((i - 1 + k) % Len(seq)) + 1]]

\* list(S) for a set S of strings: the order is that of the hash table, which
\* string hash randomisation changes from one interpreter run to the next.
\* hash_order selects the order: the rotation of a fixed order by hash_order
\* places.
ListOfSet(S, hash_order) == Rotate(SetToSeq(S), hash_order)

\* the number of orders of list(S) that are told apart
MaxHashOrders == 2

\* the values of hash_order that are tried: distinct orders of list(S)
HashOrders(S) == IF S = {} THEN {0} ELSE 0..(Min(Cardinality(S), MaxHashOrders) - 1)

\* line 211: list(set(entities))
_extract_entities(text, hash_order) == ListOfSet(EntitySet(text), hash_order)

SignificancePatterns ==
    { <<"s", "i", "g", "n", "i", "f", "i", "c", "a", "n", "c", "e", ":">>,
      <<"i", "m", "p", "a", "c", "t", ":">>,
      <<"n", "o", "t", "a", "b", "l", "e", ":">>,
      <<"i", "m", "p", "o", "r", "t", "a", "n", "t", ":">> }

CreditPatterns ==
    { <<"D", "i", "r", "e", "c", "t", "o", "r", ":">>,
      <<"M", "u", "s", "i", "c", ":">>,
      <<"P", "l", "o", "t", ":">>,
      <<"A", "c", "t", "o", "r", "s", ":">> }

\* the score in hundredths: 0.5 is 50, 0.05 is 5, 0.02 is 2, 0.1 is 10,
\* 0.15 is 15 and the cap 1.0 is 100
ImportanceUncapped(text, entities, keywords) ==
    50 + Len(entities) * 5 + Len(keywords) * 2
       + (IF ContainsAny(Lower(text), SignificancePatterns) THEN 10 ELSE 0)
       + (IF ContainsAny(text, CreditPatterns) THEN 15 ELSE 0)

\* a variant with a further boost when the entity listed last is a person
_calculate_importance_score_last_person(text, entities, keywords) ==
    Min(ImportanceUncapped(text, entities, keywords)
          + (IF entities # <<>> /\ StartsWith(entities[Len(entities)], PersonTag) THEN 10 ELSE 0),
        100)

_calculate_importance_score(text, entities, keywords) ==
    Min(ImportanceUncapped(text, entities, keywords), 100)

-----------------------------------------------------------------------------
(* knowledge_processor.py: KnowledgeProcessor._create_semantic_chunks *)

SplitByType(content_type, content, section_title, subsection_title) ==
    CASE content_type = "film_info" ->
             _chunk_film_info(content, section_title, subsection_title)
      [] content_type = "person_info" ->
             _chunk_person_info(content, section_title, subsection_title)
      [] content_type = "list" ->
             _chunk_list_content(content, section_title, subsection_title)
      [] OTHER ->
             _chunk_general_content(content, section_title, subsection_title)

\* lines 180-184: each chunk dict gains four keys (the strategies never set
\* these keys themselves)
AddMetadata(chunks, entities, keywords, content_type) ==
    [k \in 1..Len(chunks) |->
       chunks[k] @@
       [entities     |-> entities,
        keywords     |-> keywords,
        content_type |-> content_type,
        importance   |-> _calculate_importance_score(chunks[k].text, entities, keywords)]]

_create_semantic_chunks(section, hash_order) ==
    AddMetadata(SplitByType(_classify_content_type(section.content), section.content,
                            section.section, section.subsection),
                _extract_entities(section.content, hash_order),
                _extract_keywords(section.content),
                _classify_content_type(section.content))

-----------------------------------------------------------------------------
(* knowledge_processor.py: KnowledgeProcessor.chunk_text_advanced *)

\* the documents: up to MaxDocBlocks blocks of markdown, one after the other
MaxDocBlocks == 2

\* a main section with two numbered film entries, the second a short one:
\*   | ## Films
\*   | **1. Lagaan** (2001)
\*   | Director: Ashutosh Gowariker
\*   | Actors: Aamir Khan, Gracy Singh
\*   | Music: Allah Rakha
\*   | Plot: A drama film and blockbuster hit.
\*   | 
\*   | **2. Sholay**
\*   | Director: Ramesh Sippy
FilmsSection ==
    <<"#", "#", " ", "F", "i", "l", "m", "s", "\n", "*", "*", "1", ".", " ", "L", "a", "g",
       "a", "a", "n", "*", "*", " ", "(", "2", "0", "0", "1", ")", "\n", "D", "i", "r", "e",
       "c", "t", "o", "r", ":", " ", "A", "s", "h", "u", "t", "o", "s", "h", " ", "G", "o",
       "w", "a", "r", "i", "k", "e", "r", "\n", "A", "c", "t", "o", "r", "s", ":", " ", "A",
       "a", "m", "i", "r", " ", "K", "h", "a", "n", ",", " ", "G", "r", "a", "c", "y", " ",
       "S", "i", "n", "g", "h", "\n", "M", "u", "s", "i", "c", ":", " ", "A", "l", "l", "a",
       "h", " ", "R", "a", "k", "h", "a", "\n", "P", "l", "o", "t", ":", " ", "A", " ", "d",
       "r", "a", "m", "a", " ", "f", "i", "l", "m", " ", "a", "n", "d", " ", "b", "l", "o",
       "c", "k", "b", "u", "s", "t", "e", "r", " ", "h", "i", "t", ".", "\n", "\n", "*", "*",
       "2", ".", " ", "S", "h", "o", "l", "a", "y", "*", "*", "\n", "D", "i", "r", "e", "c",
       "t", "o", "r", ":", " ", "R", "a", "m", "e", "s", "h", " ", "S", "i", "p", "p", "y">>

\* a level-3 heading over one person entry:
\*   | ### Stars
\*   | * **Aamir Khan:** Signature: method acting in "Dangal" and other drama.
StarsSubsection ==
    <<"#", "#", "#", " ", "S", "t", "a", "r", "s", "\n", "*", " ", "*", "*", "A", "a", "m",
       "i", "r", " ", "K", "h", "a", "n", ":", "*", "*", " ", "S", "i", "g", "n", "a", "t",
       "u", "r", "e", ":", " ", "m", "e", "t", "h", "o", "d", " ", "a", "c", "t", "i", "n",
       "g", " ", "i", "n", " ", "\"", "D", "a", "n", "g", "a", "l", "\"", " ", "a", "n", "d",
       " ", "o", "t", "h", "e", "r", " ", "d", "r", "a", "m", "a", ".">>

\* a main section of two plain paragraphs:
\*   | ## Overview
\*   | Bollywood cinema blends song, dance and romance in one film.
\*   | 
\*   | See also.
OverviewSection ==
    <<"#", "#", " ", "O", "v", "e", "r", "v", "i", "e", "w", "\n", "B", "o", "l", "l", "y",
       "w", "o", "o", "d", " ", "c", "i", "n", "e", "m", "a", " ", "b", "l", "e", "n", "d",
       "s", " ", "s", "o", "n", "g", ",", " ", "d", "a", "n", "c", "e", " ", "a", "n", "d",
       " ", "r", "o", "m", "a", "n", "c", "e", " ", "i", "n", " ", "o", "n", "e", " ", "f",
       "i", "l", "m", ".", "\n", "\n", "S", "e", "e", " ", "a", "l", "s", "o", ".">>

\* a main section holding a dash list:
\*   | ## Hits
\*   | - Lagaan
\*   | - Sholay
\*   | - Dangal
\*   | - Swades
\*   | - Barfi
\*   | - Devdas was a hit
HitsSection ==
    <<"#", "#", " ", "H", "i", "t", "s", "\n", "-", " ", "L", "a", "g", "a", "a", "n", "\n",
       "-", " ", "S", "h", "o", "l", "a", "y", "\n", "-", " ", "D", "a", "n", "g", "a", "l",
       "\n", "-", " ", "S", "w", "a", "d", "e", "s", "\n", "-", " ", "B", "a", "r", "f", "i",
       "\n", "-", " ", "D", "e", "v", "d", "a", "s", " ", "w", "a", "s", " ", "a", " ", "h",
       "i", "t">>

\* a level-1 heading over one short paragraph:
\*   | # Notes
\*   | See also.
NotesSection ==
    <<"#", " ", "N", "o", "t", "e", "s", "\n", "S", "e", "e", " ", "a", "l", "s", "o", ".">>

\* a paragraph under no heading:
\*   | Compiled for readers in 1999.
Preamble ==
    <<"C", "o", "m", "p", "i", "l", "e", "d", " ", "f", "o", "r", " ", "r", "e", "a", "d", "e",
       "r", "s", " ", "i", "n", " ", "1", "9", "9", "9", ".">>

\* credits text that carries no numbered film marker:
\*   | ## Credits
\*   | Director: unknown for this long lost picture of 2005.
CreditsSection ==
    <<"#", "#", " ", "C", "r", "e", "d", "i", "t", "s", "\n", "D", "i", "r", "e", "c", "t",
       "o", "r", ":", " ", "u", "n", "k", "n", "o", "w", "n", " ", "f", "o", "r", " ", "t",
       "h", "i", "s", " ", "l", "o", "n", "g", " ", "l", "o", "s", "t", " ", "p", "i", "c",
       "t", "u", "r", "e", " ", "o", "f", " ", "2", "0", "0", "5", ".">>

Blocks == {FilmsSection, StarsSubsection, OverviewSection, HitsSection, NotesSection,
           Preamble, CreditsSection}

\* a heading over two numbered film entries with one short Director line each:
\*   | ## Lagaan
\*   | **1. Lagaan**
\*   | Director: Ashutosh Gowariker
\*   | **2. 3 Idiots**
\*   | Director: Rajkumar Hirani
LagaanDocument ==
    <<"#", "#", " ", "L", "a", "g", "a", "a", "n", "\n", "*", "*", "1", ".", " ", "L", "a",
       "g", "a", "a", "n", "*", "*", "\n", "D", "i", "r", "e", "c", "t", "o", "r", ":", " ",
       "A", "s", "h", "u", "t", "o", "s", "h", " ", "G", "o", "w", "a", "r", "i", "k", "e",
       "r", "\n", "*", "*", "2", ".", " ", "3", " ", "I", "d", "i", "o", "t", "s", "*", "*",
       "\n", "D", "i", "r", "e", "c", "t", "o", "r", ":", " ", "R", "a", "j", "k", "u", "m",
       "a", "r", " ", "H", "i", "r", "a", "n", "i">>

Documents ==
    {Join(blocks, <<"\n">>) : blocks \in SeqsUpTo(Blocks, MaxDocBlocks)}
    \cup {LagaanDocument}

\* line 76: a candidate is kept when its stripped text is longer than this
min_chunk_chars == 50

InitChunk ==
    /\ ct_pc = "parse"
    /\ ct_text \in Documents
    /\ ct_sections = <<>>
    /\ ct_candidates = <<>>
    /\ ct_chunks = <<>>
    /\ chunk_id = 0

\* line 66 and lines 69-70: the structure is parsed, chunks = [], chunk_id = 0
ParseDocument ==
    /\ ct_pc = "parse"
    /\ ct_sections' = _parse_document_structure(ct_text)
    /\ ct_pc' = "sections"
    /\ UNCHANGED <<ct_text, ct_candidates, ct_chunks, chunk_id>>
    /\ UNCHANGED <<ragVars, storeVars, embedVars, postVars, helperVars>>

\* lines 72-73: the outer loop takes the next section
ChunkSection ==
    /\ ct_pc = "sections"
    /\ ct_candidates = <<>>
    /\ ct_sections # <<>>
    /\ \E hash_order \in HashOrders(EntitySet(Head(ct_sections).content)) :
          ct_candidates' = _create_semantic_chunks(Head(ct_sections), hash_order)
    /\ ct_sections' = Tail(ct_sections)
    /\ UNCHANGED <<ct_pc, ct_text, ct_chunks, chunk_id>>
    /\ UNCHANGED <<ragVars, storeVars, embedVars, postVars, helperVars>>

\* a variant of line 76 that keeps every non-blank candidate
LongEnoughAny(chunk_data) == Len(Strip(chunk_data.text)) > 0
\* line 76: len(chunk_data["text"].strip()) > 50
LongEnough(chunk_data) == Len(Strip(chunk_data.text)) > min_chunk_chars

\* lines 77-93: the dict built for a kept candidate
NewChunk(chunk_data, id, index) ==
    [chunk_id        |-> id,
     text            |-> Strip(chunk_data.text),
     section         |-> chunk_data.section,
     subsection      |-> chunk_data.subsection,
     char_count      |-> Len(chunk_data.text),
     entity_mentions |-> chunk_data.entities,
     keywords        |-> chunk_data.keywords,
     chunk_type      |-> chunk_data.type,
     metadata        |-> [section_title    |-> chunk_data.section,
                          subsection_title |-> chunk_data.subsection,
                          chunk_index      |-> index,
                          importance_score |-> chunk_data.importance,
                          content_type     |-> chunk_data.content_type]]

\* lines 75-96, the branch taken: the candidate is appended and chunk_id advances
KeepChunk ==
    /\ ct_pc = "sections"
    /\ ct_candidates # <<>>
    /\ LongEnough(Head(ct_candidates))
    /\ ct_chunks' = Append(ct_chunks, NewChunk(Head(ct_candidates), chunk_id, Len(ct_chunks)))
    /\ chunk_id' = chunk_id + 1
    /\ ct_candidates' = Tail(ct_candidates)
    /\ UNCHANGED <<ct_pc, ct_text, ct_sections>>
    /\ UNCHANGED <<ragVars, storeVars, embedVars, postVars, helperVars>>

\* a variant of the branch not taken in which chunk_id advances all the same
DropChunkConsumesId ==
    /\ ct_pc = "sections"
    /\ ct_candidates # <<>>
    /\ ~LongEnough(Head(ct_candidates))
    /\ ct_candidates' = Tail(ct_candidates)
    /\ chunk_id' = chunk_id + 1
    /\ UNCHANGED <<ct_pc, ct_text, ct_sections, ct_chunks>>
    /\ UNCHANGED <<ragVars, storeVars, embedVars, postVars, helperVars>>
\* lines 75-76, the branch not taken: the candidate is passed over
DropChunk ==
    /\ ct_pc = "sections"
    /\ ct_candidates # <<>>
    /\ ~LongEnough(Head(ct_candidates))
    /\ ct_candidates' = Tail(ct_candidates)
    /\ UNCHANGED <<ct_pc, ct_text, ct_sections, ct_chunks, chunk_id>>
    /\ UNCHANGED <<ragVars, storeVars, embedVars, postVars, helperVars>>

\* lines 97-98: both loops are over and chunks is returned
ReturnChunks ==
    /\ ct_pc = "sections"
    /\ ct_candidates = <<>>
    /\ ct_sections = <<>>
    /\ ct_pc' = "done"
    /\ UNCHANGED <<ct_text, ct_sections, ct_candidates, ct_chunks, chunk_id>>
    /\ UNCHANGED <<ragVars, storeVars, embedVars, postVars, helperVars>>

NextChunkSteps ==
    \/ ParseDocument
    \/ ChunkSection
    \/ KeepChunk
    \/ DropChunk
    \/ ReturnChunks

InitChunkSpec == IdleRag /\ IdleStore /\ IdleEmbed /\ InitChunk /\ IdlePost /\ IdleHelper

SpecChunk == InitChunkSpec /\ [][NextChunkSteps]_vars

-----------------------------------------------------------------------------
(* Properties of chunking, checked under SpecChunk *)

\* every candidate chunk_text_advanced visits for a document, in visiting order
\* (with the entity lists in the order hash_order = 0)
RECURSIVE CandidatesOf(_, _)
CandidatesOf(sections, k) ==
    IF k > Len(sections) THEN <<>>
    ELSE _create_semantic_chunks(sections[k], 0) \o CandidatesOf(sections, k + 1)

Candidates == CandidatesOf(_parse_document_structure(ct_text), 1)

\* C9: every chunk chunk_text_advanced has collected carries stripped text of
\* at least 50 characters and an importance score between 0 and 1 (0 and 100
\* hundredths), whatever the document
ThmC9_KeptChunksLongAndScored ==
    \A k \in 1..Len(ct_chunks) :
        /\ Len(Strip(ct_chunks[k].text)) >= 50
        /\ ct_chunks[k].metadata.importance_score >= 0
        /\ ct_chunks[k].metadata.importance_score <= 100

\* the call has returned for a document with a too-short candidate, and a
\* returned chunk sits on the cap that its uncapped score exceeds
WitC9_ShortDroppedAndScoreCapped ==
    /\ ct_pc = "done"
    /\ \E i \in 1..Len(Candidates) : ~LongEnough(Candidates[i])
    /\ \E k \in 1..Len(ct_chunks) :
          /\ ct_chunks[k].metadata.importance_score = 100
          /\ ImportanceUncapped(ct_chunks[k].text, ct_chunks[k].entity_mentions,
                                ct_chunks[k].keywords) > 100

\* C10: the ids of the collected chunks are 0, 1, ..., k-1 in the order the
\* chunks were met in the document, each equal to the chunk's metadata
\* chunk_index; the counter has advanced for kept candidates only, and the
\* returned chunks are the long-enough candidates in document order
ThmC10_ChunkIdsContiguous ==
    /\ chunk_id = Len(ct_chunks)
    /\ \A k \in 1..Len(ct_chunks) :
          /\ ct_chunks[k].chunk_id = k - 1
          /\ ct_chunks[k].metadata.chunk_index = ct_chunks[k].chunk_id
    /\ ct_pc = "done" =>
          LET kept == SelectSeq(Candidates, LongEnough)
          IN  /\ Len(ct_chunks) = Len(kept)
              /\ \A k \in 1..Len(kept) : ct_chunks[k].text = Strip(kept[k].text)

\* the call has returned several chunks for a document in which a discarded
\* candidate came before a kept one
WitC10_DiscardedBeforeKept ==
    /\ ct_pc = "done"
    /\ Len(ct_chunks) >= 2
    /\ \E i, j \in 1..Len(Candidates) :
          /\ i < j
          /\ ~LongEnough(Candidates[i])
          /\ LongEnough(Candidates[j])

-----------------------------------------------------------------------------
(* Properties of film sections, checked under SpecChunk *)

Sections == _parse_document_structure(ct_text)

\* the indices of content at which a numbered bold entry marker stands
MarkerPositions(content) ==
    {i \in 0..(Len(content) - 1) : FilmMatchAt(content, i).end # -1}

\* the set S of integers as an increasing sequence
RECURSIVE Ascending(_)
Ascending(S) == IF S = {} THEN <<>> ELSE <<Least(S)>> \o Ascending(S \ {Least(S)})

\* the text from each marker up to the next marker or the end, stripped
EntryTexts(content, marks) ==
    [i \in 1..Len(marks) |->
       Strip(Slice(content, marks[i],
                   IF i < Len(marks) THEN marks[i + 1] ELSE Len(content)))]

RECURSIVE FilmEntryTexts(_, _)
FilmEntryTexts(sections, k) ==
    IF k > Len(sections) THEN <<>>
    ELSE (IF _classify_content_type(sections[k].content) = "film_info"
          THEN EntryTexts(sections[k].content,
                          Ascending(MarkerPositions(sections[k].content)))
          ELSE <<>>)
         \o FilmEntryTexts(sections, k + 1)

TextOf(chunk) == chunk.text
IsFilmEntry(chunk) == chunk.chunk_type = "film_entry"
LongerThanMinimum(text) == Len(text) > min_chunk_chars
TextsOfChunks(chunks) == [k \in 1..Len(chunks) |-> chunks[k].text]

\* the candidates are the marker-to-marker texts, each holding one marker only
OnePerMarker(content, candidates) ==
    /\ TextsOfChunks(candidates) = EntryTexts(content, Ascending(MarkerPositions(content)))
    /\ \A i \in 1..Len(candidates) : MarkerPositions(candidates[i].text) = {0}

\* C11 (as amended): a film_info section with N numbered bold entry markers
\* gives N candidates, the i-th being the text from its own marker up to the
\* next marker or the end of the content and holding no other marker; of
\* these, chunk_text_advanced returns the ones longer than 50 characters
ThmC11_FilmSectionOneCandidatePerMarker ==
    ct_pc = "done" =>
      /\ \A k \in 1..Len(Sections) :
            _classify_content_type(Sections[k].content) = "film_info" =>
               OnePerMarker(Sections[k].content, _create_semantic_chunks(Sections[k], 0))
      /\ TextsOfChunks(SelectSeq(ct_chunks, IsFilmEntry))
           = SelectSeq(FilmEntryTexts(Sections, 1), LongerThanMinimum)

\* the call has returned for a document with a film_info section of two
\* markers, of which one entry was returned and one was not
WitC11_TwoMarkersOneReturned ==
    /\ ct_pc = "done"
    /\ Len(Sections) = 1
    /\ _classify_content_type(Sections[1].content) = "film_info"
    /\ Cardinality(MarkerPositions(Sections[1].content)) = 2
    /\ Len(ct_chunks) = 1
    /\ IsFilmEntry(ct_chunks[1])

\* C11 as stated: the returned film chunks are as many as the markers of the
\* film_info sections
CexC11_AsManyChunksAsMarkers ==
    ct_pc = "done" =>
       Len(SelectSeq(ct_chunks, IsFilmEntry)) = Len(FilmEntryTexts(Sections, 1))

-----------------------------------------------------------------------------
(* The two-entry Lagaan document, checked under SpecChunk *)

LagaanTitle == <<"L", "a", "g", "a", "a", "n">>

FirstEntry ==
    <<"*", "*", "1", ".", " ", "L", "a", "g", "a", "a", "n", "*", "*", "\n", "D", "i", "r",
       "e", "c", "t", "o", "r", ":", " ", "A", "s", "h", "u", "t", "o", "s", "h", " ", "G",
       "o", "w", "a", "r", "i", "k", "e", "r">>

SecondEntry ==
    <<"*", "*", "2", ".", " ", "3", " ", "I", "d", "i", "o", "t", "s", "*", "*", "\n", "D",
       "i", "r", "e", "c", "t", "o", "r", ":", " ", "R", "a", "j", "k", "u", "m", "a", "r",
       " ", "H", "i", "r", "a", "n", "i">>

\* C12 (as amended): for the document '## Lagaan' with two numbered film
\* entries of one short Director line each, the parser gives one section
\* titled Lagaan, classified film_info, and _chunk_film_info gives two
\* candidates, the first entry alone and the second entry alone; both are
\* shorter than the minimum, so no chunk is collected and no id is used
ThmC12_LagaanEntriesBothDiscarded ==
    ct_text = LagaanDocument =>
       /\ Len(Sections) = 1
       /\ Sections[1].section = LagaanTitle
       /\ _classify_content_type(Sections[1].content) = "film_info"
       /\ TextsOfChunks(_create_semantic_chunks(Sections[1], 0)) = <<FirstEntry, SecondEntry>>
       /\ ct_chunks = <<>>
       /\ chunk_id = 0

\* the call has returned for the Lagaan document
WitC12_LagaanDocumentChunked ==
    /\ ct_text = LagaanDocument
    /\ ct_pc = "done"

\* C12 as stated: the call returns two chunks, ids 0 and 1, the first entry
\* and the second entry
CexC12_LagaanGivesTwoChunks ==
    (ct_text = LagaanDocument /\ ct_pc = "done") =>
       /\ Len(ct_chunks) = 2
       /\ ct_chunks[1].chunk_id = 0 /\ ct_chunks[1].text = FirstEntry
       /\ ct_chunks[2].chunk_id = 1 /\ ct_chunks[2].text = SecondEntry

-----------------------------------------------------------------------------
(* Determinism of chunking, checked under SpecChunk *)

\* what two runs are compared on: position, id, text and importance score
Compared(chunks) ==
    [k \in 1..Len(chunks) |->
       [chunk_id         |-> chunks[k].chunk_id,
        chunk_index      |-> chunks[k].metadata.chunk_index,
        text             |-> chunks[k].text,
        importance_score |-> chunks[k].metadata.importance_score]]

\* the chunk list of the run in which every entity list comes in the order
\* hash_order = 0
ChunksOfKept(kept) == [k \in 1..Len(kept) |-> NewChunk(kept[k], k - 1, k - 1)]

ReferenceChunks == ChunksOfKept(SelectSeq(Candidates, LongEnough))

\* C13: whatever order the entity lists came in, the chunk list returned for
\* a text agrees with the one of any other run on the same text in length,
\* order, ids, texts and importance scores (all agree with the reference run)
ThmC13_ChunkingIsDeterministic ==
    ct_pc = "done" => Compared(ct_chunks) = Compared(ReferenceChunks)

\* the call has returned several chunks and, in an entity list, differs from
\* the reference run on the same text
WitC13_RunsDifferInEntityOrderOnly ==
    /\ ct_pc = "done"
    /\ Len(ct_chunks) >= 2
    /\ ct_chunks # ReferenceChunks

-----------------------------------------------------------------------------
(* Properties of the structure parser, checked under SpecChunk *)

DocLines(text) == SplitOn(text, "\n")

\* the number of # signs of a heading line, 0 for any other line
HeadingLevel(line) ==
    IF HeaderMatch(Strip(line)).matched THEN Len(HeaderMatch(Strip(line)).group1) ELSE 0

\* the positions of the heading lines, of any level and of level 1 or 2
Headings(lines) == {k \in 1..Len(lines) : HeadingLevel(lines[k]) > 0}
MainHeadings(lines) == {k \in 1..Len(lines) : HeadingLevel(lines[k]) \in {1, 2}}

\* the position of the first line of `among`, one past the end if there is none
FirstOf(among, lines) == IF among = {} THEN Len(lines) + 1 ELSE Least(among)

\* the position of the last line of `among` (which is not empty)
LastOf(among) == CHOOSE k \in among : \A j \in among : j <= k

\* the lines of the sections' contents, in order
RECURSIVE EmittedLines(_)
EmittedLines(sections) ==
    IF sections = <<>> THEN <<>>
    ELSE SplitOn(Head(sections).content, "\n") \o EmittedLines(Tail(sections))

\* the lines from position k to the end
LinesFrom(lines, k) == SubSeq(lines, k, Len(lines))

\* what the parser gives for a text: every line from the first heading of
\* level 1 or 2 on, and, when there is such a heading, a last section that
\* holds the lines from the last heading of any level to the end
EmitsFromFirstMainHeading(lines, sections) ==
    /\ EmittedLines(sections) = LinesFrom(lines, FirstOf(MainHeadings(lines), lines))
    /\ MainHeadings(lines) = {} => sections = <<>>
    /\ MainHeadings(lines) # {} =>
         /\ sections # <<>>
         /\ sections[Len(sections)].content =
              Join(LinesFrom(lines, LastOf(Headings(lines))), <<"\n">>)

\* C21 (amended): _parse_document_structure emits no line that precedes the
\* first heading of level 1 or 2 (lines under an earlier, deeper heading
\* included) and every line from that heading on; at the end of the input it
\* emits the content pending since the last heading as a final section when a
\* heading of level 1 or 2 has been seen, and nothing at all otherwise.
ThmC21_EmitsFromFirstMainHeadingOn ==
    [][ct_pc = "parse" => EmitsFromFirstMainHeading(DocLines(ct_text), ct_sections')]_vars

\* a document that opens with a paragraph under no heading has been parsed
\* into at least one section
WitC21_PreambleParsed ==
    /\ ct_pc = "sections"
    /\ Headings(DocLines(ct_text)) # {}
    /\ ~(1 \in Headings(DocLines(ct_text)))
    /\ ct_sections # <<>>
    /\ ct_sections = _parse_document_structure(ct_text)

\* the title of a heading line
TitleOf(line) == Strip(HeaderMatch(Strip(line)).group2)

\* the position of the latest heading of level 1 or 2 at or before position pos
\* (there is one)
MainHeadingAt(lines, pos) == LastOf({k \in MainHeadings(lines) : k <= pos})

\* the positions of the deeper headings from the latest main heading up to pos
SubHeadingsAt(lines, pos) ==
    {k \in Headings(lines) \ MainHeadings(lines) : MainHeadingAt(lines, pos) < k /\ k <= pos}

\* the labels in force at position pos
SectionLabelAt(lines, pos) == TitleOf(lines[MainHeadingAt(lines, pos)])
SubsectionLabelAt(lines, pos) ==
    IF SubHeadingsAt(lines, pos) = {} THEN None
    ELSE TitleOf(lines[LastOf(SubHeadingsAt(lines, pos))])

\* the sections, the first of which starts at line pos, each open with a
\* heading line and carry the labels in force at that line
RECURSIVE LabelsInForce(_, _, _)
LabelsInForce(lines, sections, pos) ==
    \/ sections = <<>>
    \/ /\ pos \in Headings(lines)
       /\ Head(sections).section = SectionLabelAt(lines, pos)
       /\ Head(sections).subsection = SubsectionLabelAt(lines, pos)
       /\ LabelsInForce(lines, Tail(sections),
                        pos + Len(SplitOn(Head(sections).content, "\n")))

\* C22: a heading of level <= 2 sets the section label to its title and clears
\* the subsection label, a heading of level > 2 sets only the subsection label:
\* every emitted section opens with a heading line and carries as section the
\* title of the latest heading of level <= 2 up to that line, and as subsection
\* the title of the latest heading of level > 2 since that one, None if there
\* is none.
ThmC22_SectionsCarryLabelsInForce ==
    [][ct_pc = "parse" =>
         LabelsInForce(DocLines(ct_text), ct_sections',
                       FirstOf(MainHeadings(DocLines(ct_text)), DocLines(ct_text)))]_vars

\* a main section followed by a deeper heading has been parsed: the first
\* section carries no subsection, the second carries one
WitC22_SubsectionUnderMainSection ==
    /\ ct_pc = "sections"
    /\ ct_sections = _parse_document_structure(ct_text)
    /\ Len(ct_sections) = 2
    /\ ct_sections[1].subsection = None
    /\ ct_sections[2].subsection # None
    /\ ct_sections[2].section = ct_sections[1].section

\* what the parser is said to give: no line before the first heading, and the
\* lines from the last heading to the end as a final section
EmitsFromFirstHeading(lines, sections) ==
    /\ \E k \in FirstOf(Headings(lines), lines)..(Len(lines) + 1) :
          EmittedLines(sections) = LinesFrom(lines, k)
    /\ Headings(lines) # {} =>
         /\ sections # <<>>
         /\ sections[Len(sections)].content =
              Join(LinesFrom(lines, LastOf(Headings(lines))), <<"\n">>)

\* C21 (as claimed): _parse_document_structure emits no line that precedes the
\* first heading, and at the end of the input it emits the content pending
\* since the last heading as a final section.
CexC21_PendingContentAlwaysEmitted ==
    [][ct_pc = "parse" => EmitsFromFirstHeading(DocLines(ct_text), ct_sections')]_vars

-----------------------------------------------------------------------------
(* rag_agent.py: RAGAgent._post_process_answer on its own *)

\* the raw answers: a lead-in or none, then up to MaxItems items with one
\* separator between them
MaxItems == 3

LeadIns ==
    { <<>>,
      <<"A", "n", "s", "w", "e", "r", ":", " ">>,
      <<"T", "h", "e", " ", "a", "n", "s", "w", "e", "r", " ", "i", "s", ":", " ">> }

Items ==
    { <<"A", ".", " ", "X">>,
      <<"B", ".", " ", "Y", " ", "CHECK">>,
      <<"C", ".", " ", "Z">>,
      <<"T", "r", "u", "e">>,
      <<"F", "a", "l", "s", "e", " ", "CHECK">>,
      <<"1", ".", " ", "P">>,
      <<"P", " ", "ARROW", " ", "Q">> }

Separators ==
    { <<" ">>,
      <<"\n">>,
      <<" ", " ">>,
      <<" ", "\n">> }

RawInputs ==
    {lead \o Join(items, sep) :
        lead \in LeadIns, items \in SeqsUpTo(Items, MaxItems), sep \in Separators}

PostTypes == {MULTIPLE_CHOICE_SINGLE, MULTIPLE_CHOICE_MULTI, TRUE_FALSE, MATCH_FOLLOWING,
              TEXTUAL_ANSWER}

InitPost ==
    /\ pp_pc = "call"
    /\ pp_raw \in RawInputs
    /\ pp_type \in PostTypes
    /\ pp_answer = <<>>

\* lines 403-497: the call
PostProcess ==
    /\ pp_pc = "call"
    /\ pp_answer' = _post_process_answer(pp_raw, pp_type)
    /\ pp_pc' = "done"
    /\ UNCHANGED <<pp_raw, pp_type>>
    /\ UNCHANGED <<ragVars, storeVars, embedVars, chunkVars, helperVars>>

NextPostSteps == PostProcess

InitPostSpec == IdleRag /\ IdleStore /\ IdleEmbed /\ IdleChunk /\ InitPost /\ IdleHelper

SpecPost == InitPostSpec /\ [][NextPostSteps]_vars

-----------------------------------------------------------------------------
(* Properties of post-processing, checked under SpecPost *)

HasLineBreak(s) == Contains(s, <<"\n">>)

LinesOf(s) == SplitOn(s, "\n")

NotBlank(c) == c \notin Whitespace

\* s without its whitespace
Squeezed(s) == SelectSeq(s, NotBlank)

\* the lead-in that raw starts with, or the empty string
LeadInOf(raw) ==
    IF \E lead \in LeadIns : lead # <<>> /\ StartsWith(raw, lead)
    THEN CHOOSE lead \in LeadIns : lead # <<>> /\ StartsWith(raw, lead)
    ELSE <<>>

\* raw after its lead-in
AfterLeadIn(raw) == Slice(raw, Len(LeadInOf(raw)), Len(raw))

\* a space or tab of s is followed by the leading token of the type
BlankThenToken(question_type, s) ==
    \E i \in 1..Len(s) :
        s[i] \in {" ", "\t"} /\ TokenLen(question_type, Slice(s, i, Len(s))) > 0

\* s has no whitespace at either end and no two whitespace characters in a row
Tidy(s) ==
    /\ s = Strip(s)
    /\ \A i \in 1..(Len(s) - 1) : ~(s[i] \in Whitespace /\ s[i + 1] \in Whitespace)

OptionsRaw == <<"A", "n", "s", "w", "e", "r", ":", " ", "A", ".", " ", "X", " ", "B", ".", " ", "Y", " ", "CHECK", " ", "C", ".", " ", "Z">>

OptionsAnswer == <<"A", ".", " ", "X", "\n", "B", ".", " ", "Y", " ", "CHECK", "\n", "C", ".", " ", "Z">>

TrueFalseRaw == <<"T", "h", "e", " ", "a", "n", "s", "w", "e", "r", " ", "i", "s", ":", " ", "T", "r", "u", "e", " ", "F", "a", "l", "s", "e", " ", "CHECK">>

TrueFalseAnswer == <<"T", "r", "u", "e", "\n", "F", "a", "l", "s", "e", " ", "CHECK">>

\* C14: for a shape-constrained type and a raw answer without line breaks the
\* result is the raw answer without its lead-in, with whitespace collapsed and
\* a line break in front of every leading token that followed whitespace: the
\* same characters, tidy, every line after the first starting with the token
\* and no token left behind a blank.  'Answer: A. X B. Y (mark) C. Z' gives the
\* three lines A. X / B. Y (mark) / C. Z and 'The answer is: True False (mark)'
\* gives True / False (mark).
ThmC14_BreakBeforeEveryToken ==
    (pp_pc = "done" /\ pp_type \in ShapeTypes /\ ~HasLineBreak(pp_raw)) =>
       /\ Squeezed(pp_answer) = Squeezed(AfterLeadIn(pp_raw))
       /\ Tidy(pp_answer)
       /\ \A k \in 2..Len(LinesOf(pp_answer)) : TokenLen(pp_type, LinesOf(pp_answer)[k]) > 0
       /\ ~BlankThenToken(pp_type, pp_answer)
       /\ (pp_raw = OptionsRaw /\ pp_type \in {MULTIPLE_CHOICE_SINGLE, MULTIPLE_CHOICE_MULTI})
             => pp_answer = OptionsAnswer
       /\ (pp_raw = TrueFalseRaw /\ pp_type = TRUE_FALSE) => pp_answer = TrueFalseAnswer

\* the three-option answer has been post-processed as a single-choice answer
WitC14_ThreeOptionsSplit ==
    /\ pp_pc = "done"
    /\ pp_raw = OptionsRaw
    /\ pp_type = MULTIPLE_CHOICE_SINGLE
    /\ Len(LinesOf(pp_answer)) = 3

\* raw without its lead-in and the whitespace around the rest
Body(raw) == Strip(AfterLeadIn(raw))

\* nothing of s has the shape the type expects: with line breaks no line of s
\* passes the line test, without them s neither starts with the leading token
\* nor has one behind a blank
NothingMatches(question_type, s) ==
    IF HasLineBreak(s)
    THEN \A k \in 1..Len(LinesOf(s)) : ~LineMatches(question_type, Strip(LinesOf(s)[k]))
    ELSE /\ TokenLen(question_type, s) = 0
         /\ ~BlankThenToken(question_type, s)

NonEmptyString(s) == s # <<>>

\* the words of a text without line breaks, in order
WordsOf(s) == SelectSeq(SplitOn(s, " "), NonEmptyString)

\* C19 (amended): post-processing is lenient: for a shape-constrained type, a
\* raw answer in which nothing matches the type's pattern keeps its content:
\* with line breaks it is returned verbatim (apart from the lead-in strip),
\* without line breaks it is returned with every run of whitespace collapsed
\* into one space; and, for every type, an input that holds more than a
\* lead-in gives a non-empty answer, while an input that is only a lead-in
\* gives the empty answer.
ThmC19_UnmatchedKeptWhitespaceCollapsed ==
    pp_pc = "done" =>
       /\ (pp_type \in ShapeTypes /\ NothingMatches(pp_type, Body(pp_raw))) =>
             IF HasLineBreak(Body(pp_raw))
             THEN pp_answer = Body(pp_raw)
             ELSE /\ WordsOf(pp_answer) = WordsOf(Body(pp_raw))
                  /\ Tidy(pp_answer)
                  /\ ~HasLineBreak(pp_answer)
       /\ Body(pp_raw) # <<>> => pp_answer # <<>>
       /\ (LeadInOf(pp_raw) # <<>> /\ Body(pp_raw) = <<>>) => pp_answer = <<>>

\* an answer of two statements two spaces apart, post-processed as a
\* single-choice answer: no option letter in it, and the result is one space shorter
WitC19_DoubleSpaceCollapsed ==
    /\ pp_pc = "done"
    /\ pp_type = MULTIPLE_CHOICE_SINGLE
    /\ NothingMatches(pp_type, Body(pp_raw))
    /\ ~HasLineBreak(pp_raw)
    /\ Len(WordsOf(pp_raw)) > 2
    /\ Len(pp_answer) = Len(Body(pp_raw)) - 1

\* C19 (as claimed): for a shape-constrained type, a raw answer in which nothing
\* matches is returned verbatim (apart from the lead-in strip), with or without
\* line breaks, and a non-empty input never gives an empty answer.
CexC19_UnmatchedReturnedVerbatim ==
    pp_pc = "done" =>
       /\ (pp_type \in ShapeTypes /\ NothingMatches(pp_type, Body(pp_raw))) =>
             pp_answer = Body(pp_raw)
       /\ pp_raw # <<>> => pp_answer # <<>>

\* the lines of s, each trimmed
RECURSIVE TrimmedLines(_)
TrimmedLines(lines) ==
    IF lines = <<>> THEN <<>> ELSE <<Strip(Head(lines))>> \o TrimmedLines(Tail(lines))

\* the line has the shape the type expects: a capital letter and a period in
\* front; True or False in front; a number and a period in front, or an arrow
\* somewhere in the line
ExpectedLine(question_type, line) ==
    IF question_type \in {MULTIPLE_CHOICE_SINGLE, MULTIPLE_CHOICE_MULTI}
    THEN Len(line) >= 2 /\ line[1] \in UpperCase /\ line[2] = "."
    ELSE IF question_type = TRUE_FALSE
    THEN StartsWith(line, <<"T", "r", "u", "e">>) \/ StartsWith(line, <<"F", "a", "l", "s", "e">>)
    ELSE \/ \E d \in 1..(Len(line) - 1) :
               /\ \A i \in 1..d : line[i] \in Digits
               /\ line[d + 1] = "."
         \/ \E i \in 1..Len(line) : line[i] = "ARROW"

\* the trimmed lines of s that have the expected shape, in their order
ExpectedLines(question_type, s) ==
    LET Expected(line) == ExpectedLine(question_type, line)
    IN  SelectSeq(TrimmedLines(LinesOf(s)), Expected)

MixedRaw == <<"T", "r", "u", "e", " ", "\n", "A", ".", " ", "X", " ", "\n", "F", "a", "l", "s", "e", " ", "CHECK">>

\* C20: for a shape-constrained type and a raw answer with line breaks of which
\* at least one line has the expected shape, the result is exactly the lines
\* with the expected shape, trimmed, in their original order, one per line;
\* every other line is dropped.  'True / A. X / False (mark)' gives, as a
\* true-false answer, True / False (mark).
ThmC20_OnlyMatchingLinesKept ==
    (/\ pp_pc = "done"
     /\ pp_type \in ShapeTypes
     /\ HasLineBreak(Body(pp_raw))
     /\ ExpectedLines(pp_type, Body(pp_raw)) # <<>>) =>
       /\ LinesOf(pp_answer) = ExpectedLines(pp_type, Body(pp_raw))
       /\ (pp_raw = MixedRaw /\ pp_type = TRUE_FALSE) => pp_answer = TrueFalseAnswer

\* three lines with a blank at their end, the middle one an option line: as a
\* true-false answer the first and the third are kept
WitC20_MiddleLineDropped ==
    /\ pp_pc = "done"
    /\ pp_raw = MixedRaw
    /\ pp_type = TRUE_FALSE
    /\ Len(LinesOf(pp_answer)) = 2

-----------------------------------------------------------------------------
(* knowledge_processor.py: KnowledgeProcessor._classify_content_type on its own *)

\* bound on the number of * and of - characters in a content
MaxMarkers == 7

\* n times the character c
Repeat(c, n) == [i \in 1..n |-> c]

\* first lines of the contents: no field label, film labels, person labels,
\* and both kinds in either order
LabelLines ==
    { <<"s", "o", "n", "g", "s">>,
      <<"D", "i", "r", "e", "c", "t", "o", "r", ":", " ", "x">>,
      <<"P", "L", "O", "T", ":", " ", "y">>,
      <<"I", "m", "p", "a", "c", "t", ":", " ", "z">>,
      <<"N", "o", "t", "a", "b", "l", "e", " ", "r", "o", "l", "e", "s", ":", " ", "r">>,
      <<"I", "m", "p", "a", "c", "t", ":", " ", "z", " ", "M", "u", "s", "i", "c", ":", " ", "m">>,
      <<"T", "h", "e", "m", "e", "s", ":", " ", "t", " ", "S", "i", "g", "n", "a", "t", "u", "r", "e", ":", " ", "s">> }

ClassifyContents ==
    {label \o <<"\n">> \o Repeat("*", stars) \o <<" ">> \o Repeat("-", dashes) :
        label \in LabelLines, stars \in 0..MaxMarkers, dashes \in 0..MaxMarkers}

InitClassify ==
    /\ hp_pc = "call"
    /\ hp_arg \in ClassifyContents
    /\ hp_result = <<>>

\* lines 232-243: the call
ClassifyContent ==
    /\ hp_pc = "call"
    /\ hp_result' = _classify_content_type(hp_arg)
    /\ hp_pc' = "done"
    /\ UNCHANGED hp_arg
    /\ UNCHANGED <<ragVars, storeVars, embedVars, chunkVars, postVars>>

NextClassifySteps == ClassifyContent

InitClassifySpec == IdleRag /\ IdleStore /\ IdleEmbed /\ IdleChunk /\ IdlePost /\ InitClassify

SpecClassify == InitClassifySpec /\ [][NextClassifySteps]_vars

\* content holds one of the labels, in whatever case
HasLabel(content, labels) ==
    \E label \in labels, i \in 0..Len(content) :
        i + Len(label) <= Len(content) /\ Lower(Slice(content, i, i + Len(label))) = label

\* the number of characters c in content
Markers(content, c) == Cardinality({i \in 1..Len(content) : content[i] = c})

ManyMarkers(content) == Markers(content, "*") > 5 \/ Markers(content, "-") > 5

\* C23 (amended): classification is total and ordered: content with a film
\* field label is film_info even if it also has a person field label or many
\* markers; otherwise content with a person field label is person_info;
\* otherwise content with more than 5 * characters or more than 5 - characters,
\* each kind counted on its own, is list (exactly 5 of a kind is not, nor are
\* 5 of each); otherwise it is general.
ThmC23_ClassificationTotalAndOrdered ==
    hp_pc = "done" =>
       /\ hp_result \in {"film_info", "person_info", "list", "general"}
       /\ hp_result = "film_info" <=> HasLabel(hp_arg, FilmIndicators)
       /\ hp_result = "person_info" <=>
            (~HasLabel(hp_arg, FilmIndicators) /\ HasLabel(hp_arg, PersonIndicators))
       /\ hp_result = "list" <=>
            /\ ~HasLabel(hp_arg, FilmIndicators)
            /\ ~HasLabel(hp_arg, PersonIndicators)
            /\ ManyMarkers(hp_arg)

\* content with a person label in front of a film label and more than five
\* markers of each kind has been classified
WitC23_FilmLabelWins ==
    /\ hp_pc = "done"
    /\ HasLabel(hp_arg, PersonIndicators)
    /\ HasLabel(hp_arg, FilmIndicators)
    /\ Markers(hp_arg, "*") > 5
    /\ Markers(hp_arg, "-") > 5
    /\ hp_result = "film_info"

\* C23 (as claimed): the same order, with content of more than 5 bullet or
\* emphasis markers, counted together, a list when it has no field label.
CexC23_MarkersCountedTogether ==
    hp_pc = "done" =>
       /\ hp_result = "film_info" <=> HasLabel(hp_arg, FilmIndicators)
       /\ hp_result = "person_info" <=>
            (~HasLabel(hp_arg, FilmIndicators) /\ HasLabel(hp_arg, PersonIndicators))
       /\ hp_result = "list" <=>
            /\ ~HasLabel(hp_arg, FilmIndicators)
            /\ ~HasLabel(hp_arg, PersonIndicators)
            /\ Markers(hp_arg, "*") + Markers(hp_arg, "-") > 5

-----------------------------------------------------------------------------
(* knowledge_processor.py: _chunk_list_content and _chunk_general_content on
   their own *)

\* bound on the number of lines or paragraphs of a content
MaxParts == 3

\* the lengths of the lines and paragraphs: around half the budget and around
\* the budget
PartSizes == {0, 300, chunk_size \div 2, chunk_size \div 2 + 1, chunk_size, chunk_size + 1}

PartLists == SeqsUpTo({Repeat("x", n) : n \in PartSizes}, MaxParts)

InitAccumulate ==
    /\ hp_pc = "call"
    /\ hp_arg \in {[fn |-> fn, parts |-> parts] : fn \in {"list", "general"}, parts \in PartLists}
    /\ hp_result = <<>>

\* lines 379-412: the call, on the lines joined into one content
ChunkListContent ==
    /\ hp_pc = "call"
    /\ hp_arg.fn = "list"
    /\ hp_result' = _chunk_list_content(Join(hp_arg.parts, <<"\n">>), None, None)
    /\ hp_pc' = "done"
    /\ UNCHANGED hp_arg
    /\ UNCHANGED <<ragVars, storeVars, embedVars, chunkVars, postVars>>

\* lines 414-448: the call, on the paragraphs joined into one content
ChunkGeneralContent ==
    /\ hp_pc = "call"
    /\ hp_arg.fn = "general"
    /\ hp_result' = _chunk_general_content(Join(hp_arg.parts, <<"\n", "\n">>), None, None)
    /\ hp_pc' = "done"
    /\ UNCHANGED hp_arg
    /\ UNCHANGED <<ragVars, storeVars, embedVars, chunkVars, postVars>>

NextAccumulateSteps == ChunkListContent \/ ChunkGeneralContent

InitAccumulateSpec ==
    IdleRag /\ IdleStore /\ IdleEmbed /\ IdleChunk /\ IdlePost /\ InitAccumulate

SpecAccumulate == InitAccumulateSpec /\ [][NextAccumulateSteps]_vars

\* the separator the function joins with
SeparatorOf(fn) == IF fn = "list" THEN <<"\n">> ELSE <<"\n", "\n">>

\* the lines or paragraphs of a chunk
PartsOfChunk(chunk, fn) == SplitOnSeq(chunk.text, SeparatorOf(fn))

RECURSIVE SumLen(_)
SumLen(parts) == IF parts = <<>> THEN 0 ELSE Len(Head(parts)) + SumLen(Tail(parts))

RECURSIVE PartsOfChunks(_, _)
PartsOfChunks(chunks, fn) ==
    IF chunks = <<>> THEN <<>>
    ELSE PartsOfChunk(Head(chunks), fn) \o PartsOfChunks(Tail(chunks), fn)

\* the lines the list chunker sees, the paragraphs the general chunker keeps
ExpectedParts(arg) ==
    IF arg.fn = "list" THEN (IF arg.parts = <<>> THEN << <<>> >> ELSE arg.parts)
    ELSE SelectSeq(arg.parts, NonEmptyString)

\* C24 (amended): list and general chunking flush the accumulator before the
\* summed length of its lines (paragraphs) would exceed chunk_size, and not
\* earlier: the chunks hold the lines (paragraphs) in order, the lines of a
\* chunk of more than one line add up to at most chunk_size, only a single
\* line longer than chunk_size is over the budget on its own, and what a chunk
\* holds plus the first line of the next chunk is over chunk_size.  The
\* separators are not counted: the text of a chunk of n lines is n - 1
\* separators longer than that sum and can be longer than chunk_size.
ThmC24_PartsWithinBudgetSeparatorsNotCounted ==
    hp_pc = "done" /\ hp_arg.fn \in {"list", "general"} =>
       /\ PartsOfChunks(hp_result, hp_arg.fn) = ExpectedParts(hp_arg)
       /\ \A k \in 1..Len(hp_result) :
            /\ Len(PartsOfChunk(hp_result[k], hp_arg.fn)) > 1 =>
                 SumLen(PartsOfChunk(hp_result[k], hp_arg.fn)) <= chunk_size
            /\ Len(hp_result[k].text) =
                 SumLen(PartsOfChunk(hp_result[k], hp_arg.fn))
                 + (Len(PartsOfChunk(hp_result[k], hp_arg.fn)) - 1) * Len(SeparatorOf(hp_arg.fn))
            /\ k < Len(hp_result) =>
                 SumLen(PartsOfChunk(hp_result[k], hp_arg.fn))
                 + Len(Head(PartsOfChunk(hp_result[k + 1], hp_arg.fn))) > chunk_size

\* two paragraphs of half the budget each have been chunked into one chunk
\* whose text is longer than chunk_size
WitC24_TwoHalvesOverBudget ==
    /\ hp_pc = "done"
    /\ hp_arg.fn = "general"
    /\ Len(hp_result) = 1
    /\ Len(PartsOfChunk(hp_result[1], "general")) = 2
    /\ Len(hp_result[1].text) = chunk_size + 2

\* C24 (as claimed): every emitted chunk that holds more than one line (list)
\* or paragraph (general) has a text of at most chunk_size characters.
CexC24_TextWithinBudget ==
    hp_pc = "done" /\ hp_arg.fn \in {"list", "general"} =>
       \A k \in 1..Len(hp_result) :
          Len(PartsOfChunk(hp_result[k], hp_arg.fn)) > 1 =>
             Len(hp_result[k].text) <= chunk_size

-----------------------------------------------------------------------------
(* knowledge_processor.py: KnowledgeProcessor._extract_entities on its own *)

\* bound on the number of number tokens in a text
MaxYears == 2

\* number tokens: years of both centuries, the ends of the range, numbers just
\* outside it, and digits that are part of a longer token
NumberTokens ==
    { <<"1", "8", "9", "9">>, <<"1", "9", "0", "0">>, <<"1", "9", "7", "5">>,
      <<"1", "9", "9", "9">>, <<"2", "0", "0", "1">>, <<"2", "0", "9", "9">>,
      <<"2", "1", "0", "0">>, <<"1", "9", "7", "5", "5">>, <<"x", "1", "9", "9", "9">> }

\* 'in 1975 and 2001.'
YearTexts ==
    {<<"i", "n", " ">> \o Join(tokens, <<" ", "a", "n", "d", " ">>) \o <<".">> :
        tokens \in SeqsUpTo(NumberTokens, MaxYears)}

InitEntities ==
    /\ hp_pc = "call"
    /\ hp_arg \in YearTexts
    /\ hp_result = <<>>

\* lines 188-211: the call; the order of the list returned follows the hash table
ExtractEntities ==
    /\ hp_pc = "call"
    /\ \E hash_order \in HashOrders(EntitySet(hp_arg)) :
          hp_result' = _extract_entities(hp_arg, hash_order)
    /\ hp_pc' = "done"
    /\ UNCHANGED hp_arg
    /\ UNCHANGED <<ragVars, storeVars, embedVars, chunkVars, postVars>>

NextEntitiesSteps == ExtractEntities

InitEntitiesSpec ==
    IdleRag /\ IdleStore /\ IdleEmbed /\ IdleChunk /\ IdlePost /\ InitEntities

SpecEntities == InitEntitiesSpec /\ [][NextEntitiesSteps]_vars

\* the standalone 4-digit tokens of s that lie in [1900, 2099]
YearsIn(s) ==
    {Slice(s, i, i + 4) : i \in {j \in 0..(Len(s) - 4) :
        /\ \A d \in 0..3 : At(s, j + d) \in Digits
        /\ <<At(s, j), At(s, j + 1)>> \in {<<"1", "9">>, <<"2", "0">>}
        /\ ~(At(s, j - 1) \in WordChars)
        /\ ~(At(s, j + 4) \in WordChars)}}

\* the entities of a list that carry the YEAR: tag
YearEntities(entities) ==
    {entities[k] : k \in {j \in 1..Len(entities) : StartsWith(entities[j], YearTag)}}

\* C25 (as claimed): each standalone 4-digit token in [1900, 2099] of the
\* content is tagged YEAR: followed by the full token, so two different years
\* give two different YEAR entities.
CexC25_YearEntityHoldsFullYear ==
    hp_pc = "done" /\ hp_arg \in YearTexts =>
       YearEntities(hp_result) = {YearTag \o year : year \in YearsIn(hp_arg)}

-----------------------------------------------------------------------------
(* app.py: steps 3-4 of process_pipeline, process_knowledge_base followed by
   setup_vector_store on the chunks it returned *)

InitIngest ==
    /\ InitEmbed
    /\ vs_pc = "idle"
    /\ collection \in {NoCollection} \cup {CollectionOf(n, "old") : n \in OldSizes}
    /\ vs_chunks = 0
    /\ force_recreate \in BOOLEAN
    /\ upserts = <<>>
    /\ vs_result = "none"
    /\ pipeline = "step3"

\* a bug variant of the hand-over: the set-up starts when the batch loop has
\* ended, before the embeddings are written into the chunks
SetupVectorStoreEarly ==
    /\ ge_pc \in {"assign", "done"}
    /\ vs_pc = "idle"
    /\ vs_pc' = "create"
    /\ vs_chunks' = Len(ge_chunks)
    /\ pipeline' = "step4"
    /\ UNCHANGED <<collection, force_recreate, upserts, vs_result>>
    /\ UNCHANGED <<ragVars, embedVars, chunkVars, postVars, helperVars>>

\* process_pipeline, lines 148-155: process_knowledge_base has returned its
\* chunks, setup_vector_store is called with them
SetupVectorStore ==
    /\ ge_pc = "done"
    /\ vs_pc = "idle"
    /\ vs_pc' = "create"
    /\ vs_chunks' = Len(ge_chunks)
    /\ pipeline' = "step4"
    /\ UNCHANGED <<collection, force_recreate, upserts, vs_result>>
    /\ UNCHANGED <<ragVars, embedVars, chunkVars, postVars, helperVars>>

NextIngestSteps == NextEmbedSteps \/ SetupVectorStore \/ NextStoreSteps

InitIngestSpec == IdleRag /\ InitIngest /\ IdleChunk /\ IdlePost /\ IdleHelper

SpecIngest == InitIngestSpec /\ [][NextIngestSteps]_vars

-----------------------------------------------------------------------------
(* Properties of the ingestion pass, checked under SpecIngest *)

\* 0-based positions of the texts sent by embed call k
EmbedCovers(k) == embed_calls[k].first .. (embed_calls[k].first + embed_calls[k].count - 1)

\* 0-based positions of the chunks sent by upsert call k
UpsertCovers(k) == upserts[k].first .. upserts[k].last

\* the calls issued so far took the chunks in order, without gap or overlap,
\* at most `limit` per call: covers(k) is the range of positions of call k
InOrderFromStart(count, covers(_), limit) ==
    \A k \in 1..count :
       /\ covers(k) # {}
       /\ Cardinality(covers(k)) <= limit
       /\ Least(covers(k)) = IF k = 1 THEN 0
                             ELSE Least(covers(k - 1)) + Cardinality(covers(k - 1))

\* every position 0..n-1 is in the range of exactly one call
EachCoveredOnce(n, count, covers(_)) ==
    /\ \A c \in 0..(n - 1) : Cardinality({k \in 1..count : c \in covers(k)}) = 1
    /\ \A k \in 1..count : covers(k) \subseteq 0..(n - 1)

EmbeddingFinished ==
    /\ ge_pc = "done"
    /\ EachCoveredOnce(Len(ge_chunks), Len(embed_calls), EmbedCovers)

\* C26: ingestion is one sequential pass. The embed calls take the chunk texts
\* in order, at most 96 per call, and when the batch loop has ended every text
\* was sent exactly once. The upsert calls take the chunks in order, at most
\* 100 per call, and when the set-up returns every chunk was sent exactly once.
\* No upsert is issued, and the set-up is not even entered, before the last
\* embedding batch has finished and the embeddings are in the chunks.
ThmC26_IngestionIsOneSequentialPass ==
    /\ InOrderFromStart(Len(embed_calls), EmbedCovers, embed_batch_size)
    /\ ge_pc # "batches" =>
         EachCoveredOnce(Len(ge_chunks), Len(embed_calls), EmbedCovers)
    /\ InOrderFromStart(Len(upserts), UpsertCovers, upsert_batch_size)
    /\ \A k \in 1..Len(upserts) : UpsertCovers(k) \subseteq 0..(Len(ge_chunks) - 1)
    /\ vs_pc = "returned" =>
         EachCoveredOnce(Len(ge_chunks), Len(upserts), UpsertCovers)
    /\ (vs_pc # "idle" \/ upserts # <<>>) =>
         /\ EmbeddingFinished
         /\ vs_chunks = Len(ge_chunks)
         /\ \A c \in 1..Len(ge_chunks) : "embedding" \in DOMAIN ge_chunks[c]

\* 193 chunks were embedded in three calls and stored in two
WitC26_ThreeEmbedCallsTwoUpserts ==
    /\ vs_pc = "returned"
    /\ Len(ge_chunks) = 2 * embed_batch_size + 1
    /\ Len(embed_calls) = 3
    /\ Len(upserts) = 2
    /\ UpsertCovers(2) = upsert_batch_size .. (2 * embed_batch_size)

-----------------------------------------------------------------------------
(* knowledge_processor.py: KnowledgeProcessor.chunk_text_advanced on documents
   whose sections give candidates around the minimum size *)

\* bound on the number of sections of such a document
MaxShortSections == 2

\* lengths of the candidate texts: under, on and over the minimum
CandidateLengths ==
    {min_chunk_chars - 1, min_chunk_chars, min_chunk_chars + 1, min_chunk_chars + 10}

\* '# Notes' and one line of body text: a general section whose one candidate
\* is the whole section, n characters long
ShortSection(n) ==
    <<"#", " ", "N", "o", "t", "e", "s", "\n">> \o Repeat("x", n - 8)

ShortDocuments ==
    {Join(blocks, <<"\n">>) :
        blocks \in SeqsUpTo({ShortSection(n) : n \in CandidateLengths}, MaxShortSections)}

InitMinimum ==
    /\ ct_pc = "parse"
    /\ ct_text \in ShortDocuments
    /\ ct_sections = <<>>
    /\ ct_candidates = <<>>
    /\ ct_chunks = <<>>
    /\ chunk_id = 0

InitMinimumSpec == IdleRag /\ IdleStore /\ IdleEmbed /\ InitMinimum /\ IdlePost /\ IdleHelper

SpecMinimum == InitMinimumSpec /\ [][NextChunkSteps]_vars

-----------------------------------------------------------------------------
(* Properties of the minimum chunk size, checked under SpecMinimum *)

FiftyOrMore(chunk_data) == Len(Strip(chunk_data.text)) >= 50

\* C27 (as claimed): chunk_text_advanced drops exactly the candidates whose
\* trimmed text is under 50 characters; every candidate of 50 or more
\* characters, exactly 50 included, is returned, with the ids 0, 1, ...
CexC27_FiftyCharactersKept ==
    ct_pc = "done" =>
       LET kept == SelectSeq(Candidates, FiftyOrMore)
       IN  /\ Len(ct_chunks) = Len(kept)
           /\ \A k \in 1..Len(kept) :
                 /\ ct_chunks[k].text = Strip(kept[k].text)
                 /\ ct_chunks[k].chunk_id = k - 1

-----------------------------------------------------------------------------
(* rag_agent.py: RAGAgent._post_process_answer applied to its own result *)

\* bound on the number of lead-in phrases at the start of a raw answer
MaxLeadIns == 2

\* positions in unwanted_prefixes of the lead-in phrases used:
\* 'Answer:', 'answer:', 'The answer is:'
LeadInChoices == {1, 2, 4}

\* the lead-in phrases at positions ks, each followed by a space
RECURSIVE LeadInText(_)
LeadInText(ks) ==
    IF ks = <<>> THEN <<>>
    ELSE unwanted_prefixes[Head(ks)] \o <<" ">> \o LeadInText(Tail(ks))

\* text that carries no leading token of any type: none, or 'so '
Preambles == { <<>>, <<"s", "o", " ">> }

AnswerItems ==
    { <<"A", ".", " ", "X">>,
      <<"B", ".", " ", "Y", " ", "CHECK">>,
      <<"T", "r", "u", "e">>,
      <<"1", ".", " ", "P">>,
      <<"P", " ", "ARROW", " ", "Q">> }

ItemLists == {<<i>> : i \in AnswerItems} \cup (AnswerItems \X AnswerItems)

ItemSeparators == { <<" ">>, <<" ", " ">>, <<"\n">> }

\* the raw answer: lead-in phrases, then the preamble, then the items
RawAnswer(a) == LeadInText(a.leads) \o a.preamble \o Join(a.items, a.sep)

InitTwice ==
    /\ hp_pc = "call"
    /\ hp_arg \in [leads    : SeqsUpTo(LeadInChoices, MaxLeadIns),
                   preamble : Preambles,
                   items    : ItemLists,
                   sep      : ItemSeparators,
                   type     : PostTypes]
    /\ hp_result = <<>>

\* lines 403-497: the call on the raw answer
NormalizeOnce ==
    /\ hp_pc = "call"
    /\ hp_result' = <<_post_process_answer(RawAnswer(hp_arg), hp_arg.type)>>
    /\ hp_pc' = "once"
    /\ UNCHANGED hp_arg
    /\ UNCHANGED <<ragVars, storeVars, embedVars, chunkVars, postVars>>

\* lines 403-497: the call on the result of the first call
NormalizeAgain ==
    /\ hp_pc = "once"
    /\ hp_result' = Append(hp_result, _post_process_answer(hp_result[1], hp_arg.type))
    /\ hp_pc' = "twice"
    /\ UNCHANGED hp_arg
    /\ UNCHANGED <<ragVars, storeVars, embedVars, chunkVars, postVars>>

NextTwiceSteps == NormalizeOnce \/ NormalizeAgain

InitTwiceSpec == IdleRag /\ IdleStore /\ IdleEmbed /\ IdleChunk /\ IdlePost /\ InitTwice

SpecTwice == InitTwiceSpec /\ [][NextTwiceSteps]_vars

-----------------------------------------------------------------------------
(* Properties of repeated post-processing, checked under SpecTwice *)

\* the lead-in phrases stand in the order of the list unwanted_prefixes
InListOrder(ks) == \A i \in 1..(Len(ks) - 1) : ks[i] < ks[i + 1]

OneLine(a) == ~Contains(RawAnswer(a), <<"\n">>)

\* every item is an item of the type, and nothing stands before the first
ItemsOfType(a) ==
    /\ a.preamble = <<>>
    /\ \A i \in 1..Len(a.items) : LineMatches(a.type, a.items[i])

\* an item other than the first starts with the type's token
LaterToken(a) == \E i \in 1..Len(a.items) : TokenLen(a.type, a.items[i]) > 0

FirstLine(s) == SplitOn(s, "\n")[1]

\* the second call leaves the result of the first as it is
SecondCallChangesNothing == hp_result[2] = hp_result[1]

\* C28 (amended): _post_process_answer applied to its own result changes
\* nothing when the answer's lead-in phrases stand in the order of the list of
\* prefixes and, for a shape-constrained type, the answer consists of items of
\* that type only. It is not idempotent in general: of lead-in phrases that do
\* not stand in list order one survives the first call and is stripped by the
\* second (one-line answers and answers of other types), and of a one-line
\* answer with text before the first token the first call makes lines, of
\* which the second call drops the first unless it passes the type's line
\* test (an arrow in a match-the-following answer).
ThmC28_IdempotentOnCleanAnswersOnly ==
    hp_pc = "twice" =>
       /\ (InListOrder(hp_arg.leads) /\ (hp_arg.type \in ShapeTypes => ItemsOfType(hp_arg)))
             => SecondCallChangesNothing
       /\ (~InListOrder(hp_arg.leads) /\ (hp_arg.type \in ShapeTypes => OneLine(hp_arg)))
             => /\ \E k \in LeadInChoices : StartsWith(hp_result[1], unwanted_prefixes[k])
                /\ ~SecondCallChangesNothing
       /\ (/\ InListOrder(hp_arg.leads)
           /\ hp_arg.type \in ShapeTypes
           /\ OneLine(hp_arg)
           /\ hp_arg.preamble # <<>>
           /\ LaterToken(hp_arg))
             => /\ StartsWith(FirstLine(hp_result[1]), Strip(hp_arg.preamble))
                /\ IF LineMatches(hp_arg.type, FirstLine(hp_result[1]))
                   THEN SecondCallChangesNothing
                   ELSE hp_result[1] = FirstLine(hp_result[1]) \o <<"\n">> \o hp_result[2]

\* 'answer: Answer: True' as a true/false answer: 'Answer:\nTrue' after one
\* call, 'True' after two
WitC28_SecondLeadInSurvivesFirstCall ==
    /\ hp_pc = "twice"
    /\ hp_arg.leads = <<2, 1>>
    /\ hp_arg.type = TRUE_FALSE
    /\ hp_result = << <<"A", "n", "s", "w", "e", "r", ":", "\n", "T", "r", "u", "e">>,
                      <<"T", "r", "u", "e">> >>

\* C28 (as claimed): for every raw answer and every question type the second
\* call returns what the first returned
CexC28_PostProcessingIdempotent ==
    hp_pc = "twice" => SecondCallChangesNothing

-----------------------------------------------------------------------------
(* knowledge_processor.py: KnowledgeProcessor.chunk_text_advanced on documents
   of film and person sections with and without entry markers *)

\* bound on the number of sections of such a document
MaxEntrySections == 2

\* a film section with a line before its two numbered entries, the second
\* of them short:
\*   | ## Films
\*   | Director: see each entry below.
\*   | **1. Lagaan** (2001)
\*   | Director: Ashutosh Gowariker made this drama.
\*   | **2. Sholay**
\*   | Director: Ramesh Sippy
FilmsWithLeadSection ==
    <<"#", "#", " ", "F", "i", "l", "m", "s", "\n", "D", "i", "r", "e", "c", "t", "o",
       "r", ":", " ", "s", "e", "e", " ", "e", "a", "c", "h", " ", "e", "n", "t", "r",
       "y", " ", "b", "e", "l", "o", "w", ".", "\n", "*", "*", "1", ".", " ", "L", "a",
       "g", "a", "a", "n", "*", "*", " ", "(", "2", "0", "0", "1", ")", "\n", "D", "i",
       "r", "e", "c", "t", "o", "r", ":", " ", "A", "s", "h", "u", "t", "o", "s", "h",
       " ", "G", "o", "w", "a", "r", "i", "k", "e", "r", " ", "m", "a", "d", "e", " ",
       "t", "h", "i", "s", " ", "d", "r", "a", "m", "a", ".", "\n", "*", "*", "2", ".",
       " ", "S", "h", "o", "l", "a", "y", "*", "*", "\n", "D", "i", "r", "e", "c", "t",
       "o", "r", ":", " ", "R", "a", "m", "e", "s", "h", " ", "S", "i", "p", "p", "y">>

\* a person section with a line before its one entry:
\*   | ## Stars
\*   | Signature: roles of each star.
\*   | * **Aamir Khan:** Signature: method acting in "Dangal" and other drama.
StarsWithLeadSection ==
    <<"#", "#", " ", "S", "t", "a", "r", "s", "\n", "S", "i", "g", "n", "a", "t", "u",
       "r", "e", ":", " ", "r", "o", "l", "e", "s", " ", "o", "f", " ", "e", "a", "c",
       "h", " ", "s", "t", "a", "r", ".", "\n", "*", " ", "*", "*", "A", "a", "m", "i",
       "r", " ", "K", "h", "a", "n", ":", "*", "*", " ", "S", "i", "g", "n", "a", "t",
       "u", "r", "e", ":", " ", "m", "e", "t", "h", "o", "d", " ", "a", "c", "t", "i",
       "n", "g", " ", "i", "n", " ", "\"", "D", "a", "n", "g", "a", "l", "\"", " ",
       "a", "n", "d", " ", "o", "t", "h", "e", "r", " ", "d", "r", "a", "m", "a", ".">>

\* a person section without an entry:
\*   | ## Legends
\*   | Signature: none recorded for the stars of this early era.
LegendsSection ==
    <<"#", "#", " ", "L", "e", "g", "e", "n", "d", "s", "\n", "S", "i", "g", "n", "a",
       "t", "u", "r", "e", ":", " ", "n", "o", "n", "e", " ", "r", "e", "c", "o", "r",
       "d", "e", "d", " ", "f", "o", "r", " ", "t", "h", "e", " ", "s", "t", "a", "r",
       "s", " ", "o", "f", " ", "t", "h", "i", "s", " ", "e", "a", "r", "l", "y", " ",
       "e", "r", "a", ".">>

EntryBlocks == {FilmsWithLeadSection, StarsWithLeadSection, LegendsSection, CreditsSection}

EntryDocuments ==
    {Join(blocks, <<"\n">>) : blocks \in SeqsUpTo(EntryBlocks, MaxEntrySections)}

InitEntrySections ==
    /\ ct_pc = "parse"
    /\ ct_text \in EntryDocuments
    /\ ct_sections = <<>>
    /\ ct_candidates = <<>>
    /\ ct_chunks = <<>>
    /\ chunk_id = 0

InitEntrySectionsSpec == IdleRag /\ IdleStore /\ IdleEmbed /\ InitEntrySections /\ IdlePost /\ IdleHelper

SpecEntrySections == InitEntrySectionsSpec /\ [][NextChunkSteps]_vars

-----------------------------------------------------------------------------
(* Properties of film and person sections, checked under SpecEntrySections *)

EntryTypes == {"film_info", "person_info"}

KindOf(content_type) == IF content_type = "film_info" THEN "film" ELSE "person"

\* the indices of content at which an entry marker of the kind stands
EntryMarkers(kind, content) ==
    {i \in 0..(Len(content) - 1) : MatchAt(kind, content, i).end # -1}

\* the content before the first entry marker, all of it if there is none
Lead(content, marks) ==
    Strip(Slice(content, 0, IF marks = {} THEN Len(content) ELSE Least(marks)))

\* the candidates are the texts from each marker on, none holds the lead
FromFirstMarkerOn(content, marks, candidates) ==
    /\ TextsOfChunks(candidates) = EntryTexts(content, Ascending(marks))
    /\ \A i \in 1..Len(candidates) :
          /\ MatchAt(KindOf(_classify_content_type(content)), candidates[i].text, 0).end # -1
          /\ Lead(content, marks) # <<>> => ~Contains(candidates[i].text, Lead(content, marks))

RECURSIVE EntryTextsOf(_, _)
EntryTextsOf(sections, k) ==
    IF k > Len(sections) THEN <<>>
    ELSE EntryTexts(sections[k].content,
                    Ascending(EntryMarkers(KindOf(_classify_content_type(sections[k].content)),
                                           sections[k].content)))
         \o EntryTextsOf(sections, k + 1)

\* C30: in a section classified film_info or person_info the candidates are
\* the texts from each entry marker up to the next, so the content before the
\* first marker is in no chunk, and a section without a marker gives no
\* candidate; the chunks returned for a document of such sections are the
\* entries longer than 50 characters and nothing else.
ThmC30_OnlyEntriesAreIndexed ==
    ct_pc = "done" =>
      /\ \A k \in 1..Len(Sections) :
            /\ _classify_content_type(Sections[k].content) \in EntryTypes
            /\ FromFirstMarkerOn(
                  Sections[k].content,
                  EntryMarkers(KindOf(_classify_content_type(Sections[k].content)),
                               Sections[k].content),
                  _create_semantic_chunks(Sections[k], 0))
      /\ TextsOfChunks(ct_chunks) = SelectSeq(EntryTextsOf(Sections, 1), LongerThanMinimum)

\* a person section without a marker came first and gave nothing, the film
\* section after it gave its long entry and not its first content line
WitC30_LeadAndUnmarkedSectionLost ==
    /\ ct_pc = "done"
    /\ ct_text = Join(<<LegendsSection, FilmsWithLeadSection>>, <<"\n">>)
    /\ Len(ct_chunks) = 1
    /\ \A k \in 1..1 :
          /\ IsFilmEntry(ct_chunks[k])
          /\ ct_chunks[k].section = <<"F", "i", "l", "m", "s">>
          /\ ~Contains(ct_chunks[k].text, <<"e", "a", "c", "h">>)

====
